---- MODULE Spec2Model ----
(***************************************************************************)
(* Model of scripts/audit_api_fields.py: the field-level API audit.        *)
(*                                                                         *)
(* Conventions.                                                            *)
(*  - A Python str is a sequence of tokens (string fragments); "" is <<>>  *)
(*    and + is \o.  S("abc") is the one-token string.  The separators the  *)
(*    code splits or matches on ("/", ".", "[]", "{", "}", "#", "?") are   *)
(*    always tokens of their own.                                          *)
(*  - A JSON value (the OpenAPI document, a response payload) is a tagged  *)
(*    record: JNull, JBool(b), JInt(n), JFloat(x), JStr(s), JList(seq),    *)
(*    JDict(seq of <<key, value>>), so that isinstance() is a test of the  *)
(*    tag and a dict keeps its insertion order.  Python None is JNull.     *)
(*  - A raised exception is the name of its class in the field exc of the  *)
(*    threaded state; NoExc means that none was raised.                    *)
(***************************************************************************)
EXTENDS Integers, Sequences, FiniteSets, TLC

\* ------------------------------------------------------------------ bounds

\* Depth at which the interpreter raises RecursionError (scaled down).
RecursionLimit == 12

\* The largest --concurrency a run is given.
MaxConcurrency == 3

\* ------------------------------------------------------------ str and JSON

S(tok) == <<tok>>

NoExc == "NoExc"

JNull == [t |-> "null"]
JBool(b) == [t |-> "bool", v |-> b]
JInt(n) == [t |-> "int", v |-> n]
\* A float holds its value in tenths (JFloat(15) is 1.5), so that it stays a number.
JFloat(x) == [t |-> "float", v |-> x]
JStr(s) == [t |-> "str", v |-> s]
JList(xs) == [t |-> "list", v |-> xs]
JDict(kvs) == [t |-> "dict", v |-> kvs]

\* "k in d" for a dict d.
HasKey(d, k) == d.t = "dict" /\ \E i \in 1..Len(d.v) : d.v[i][1] = k

\* d[k] for a dict d that has the key k.
Item(d, k) == d.v[CHOOSE i \in 1..Len(d.v) : d.v[i][1] = k][2]

\* d.get(k): None when k is absent.
Get(d, k) == IF HasKey(d, k) THEN Item(d, k) ELSE JNull

\* s.startswith(p)
StartsWith(s, p) == Len(p) <= Len(s) /\ SubSeq(s, 1, Len(p)) = p

\* s.split(sep) for a one-token separator: the list of the parts, in order.
RECURSIVE Split(_, _)
Split(s, sep) ==
  IF \A i \in 1..Len(s) : s[i] # sep THEN <<s>>
  ELSE LET i == CHOOSE j \in 1..Len(s) : s[j] = sep /\ \A k \in 1..(j - 1) : s[k] # sep
       IN <<SubSeq(s, 1, i - 1)>> \o Split(SubSeq(s, i + 1, Len(s)), sep)

\* ------------------------------------------------------------ resolve_ref

\* s.replace("~1", "/").replace("~0", "~"), token by token.
_json_pointer_unescape(s) ==
  [i \in 1..Len(s) |-> IF s[i] = "~1" THEN "/" ELSE IF s[i] = "~0" THEN "~" ELSE s[i]]

\* The pointer walk of resolve_ref: node = node[part] for each part.
RECURSIVE walk_pointer(_, _, _)
walk_pointer(node, parts, i) ==
  IF i > Len(parts) THEN [exc |-> NoExc, node |-> node]
  ELSE LET part == _json_pointer_unescape(parts[i]) IN
       IF node.t = "dict"
       THEN IF HasKey(node, part)
            THEN walk_pointer(Item(node, part), parts, i + 1)
            ELSE [exc |-> "KeyError", node |-> JNull]
       ELSE [exc |-> "TypeError", node |-> JNull]

resolve_ref(spec, ref) ==
  IF ref.t # "str" THEN [exc |-> "AttributeError", node |-> JNull]
  ELSE IF ~StartsWith(ref.v, <<"#", "/">>) THEN [exc |-> "ValueError", node |-> JNull]
  ELSE walk_pointer(spec, Split(SubSeq(ref.v, 3, Len(ref.v)), "/"), 1)

\* ------------------------------------------------------------ schema_type

schema_type(schema) ==
  IF HasKey(schema, S("type")) /\ Item(schema, S("type")).t = "str"
  THEN Item(schema, S("type")).v
  ELSE IF HasKey(schema, S("properties")) \/ HasKey(schema, S("additionalProperties"))
  THEN S("object")
  ELSE IF HasKey(schema, S("items")) THEN S("array")
  ELSE IF HasKey(schema, S("allOf")) THEN S("object")
  ELSE S("unknown")

\* ------------------------------------------------ collect_expected_fields

ExpectedField(path, expected_type, required, fmt, description) ==
  [path |-> path, expected_type |-> expected_type, required |-> required,
   fmt |-> fmt, description |-> description]

\* "x or y" for two Optional[str].
StrOr(x, y) == IF x.t = "str" /\ x.v # <<>> THEN x ELSE y

\* schema.get(k) if isinstance(schema.get(k), str) else None
StrOrNone(schema, k) == IF Get(schema, k).t = "str" THEN Get(schema, k) ELSE JNull

\* A record whose required flag is inherited: a field under a required
\* field is required.
record_field_inherit(out, prefix, t, required, fmt, desc) ==
  LET n == Len(prefix)
      parent == IF n >= 3 /\ prefix[n - 1] = "." THEN SubSeq(prefix, 1, n - 2)
                ELSE IF n >= 2 /\ prefix[n] = "[]" THEN SubSeq(prefix, 1, n - 1)
                ELSE <<>>
      inherited == parent \in DOMAIN out /\ out[parent].required
      new == ExpectedField(prefix, t, required \/ inherited, fmt, desc)
  IN [p \in DOMAIN out \cup {prefix} |-> IF p = prefix THEN new ELSE out[p]]

\* A record that replaces the record already there: the last branch wins.
record_field_last_wins(out, prefix, t, required, fmt, desc) ==
  [p \in DOMAIN out \cup {prefix} |->
     IF p = prefix THEN ExpectedField(prefix, t, required, fmt, desc) ELSE out[p]]

\* out[prefix] = ... of lines 141-155: a first record, or the merge with the
\* record already there.
record_field(out, prefix, t, required, fmt, desc) ==
  LET new ==
        IF prefix \notin DOMAIN out
        THEN ExpectedField(prefix, t, required, fmt, desc)
        ELSE LET existing == out[prefix] IN
             ExpectedField(prefix,
                           IF existing.expected_type # S("unknown")
                           THEN existing.expected_type ELSE t,
                           existing.required \/ required,
                           StrOr(existing.fmt, fmt),
                           StrOr(existing.description, desc))
  IN [p \in DOMAIN out \cup {prefix} |-> IF p = prefix THEN new ELSE out[p]]

\* The state a walk threads through its calls: the two output collections, the
\* visited-reference set (one mutable set object shared by every call of the
\* walk) and the exception in flight.
WalkState(out, open_prefixes, visited_refs, exc) ==
  [out |-> out, open_prefixes |-> open_prefixes, visited_refs |-> visited_refs,
   exc |-> exc]

EmptyWalk == WalkState(<<>>, {}, {}, NoExc)

\* A resolver that never takes a reference for visited.
ref_visited_never(ref, visited_refs) == FALSE

\* "if ref in visited_refs: return"
ref_visited(ref, visited_refs) == ref \in visited_refs

\* "schema[additionalProperties] not in (False, None)": == makes 0 equal False.
ap_permits(ap) ==
  ~(ap.t = "null" \/ (ap.t = "bool" /\ ~ap.v) \/ (ap.t \in {"int", "float"} /\ ap.v = 0))

RECURSIVE collect_expected_fields(_, _, _, _, _, _)
RECURSIVE collect_all_of(_, _, _, _, _, _, _)
RECURSIVE collect_properties(_, _, _, _, _, _, _)

\* for sub in schema["allOf"], from index i on.
collect_all_of(spec, subs, i, prefix, required, st, depth) ==
  IF st.exc # NoExc \/ i > Len(subs) THEN st
  ELSE collect_all_of(spec, subs, i + 1, prefix, required,
         IF subs[i].t = "dict"
         THEN collect_expected_fields(spec, subs[i], prefix, required, st, depth + 1)
         ELSE st,
         depth)

\* for name, child in props.items(), from index i on.
collect_properties(spec, props, i, prefix, req_set, st, depth) ==
  IF st.exc # NoExc \/ i > Len(props) THEN st
  ELSE LET name == props[i][1]
           child == props[i][2]
           child_path == IF prefix # <<>> THEN prefix \o <<".">> \o name ELSE name
       IN collect_properties(spec, props, i + 1, prefix, req_set,
            IF child.t = "dict"
            THEN collect_expected_fields(spec, child, child_path, name \in req_set,
                                         st, depth + 1)
            ELSE st,
            depth)

collect_expected_fields(spec, schema, prefix, required, st, depth) ==
  IF st.exc # NoExc THEN st
  ELSE IF depth > RecursionLimit THEN [st EXCEPT !.exc = "RecursionError"]
  ELSE IF HasKey(schema, S("$ref")) THEN
    LET ref == Item(schema, S("$ref")) IN
    IF ref_visited(ref, st.visited_refs) THEN st
    ELSE LET st1 == [st EXCEPT !.visited_refs = @ \cup {ref}]
             r == resolve_ref(spec, ref)
         IN IF r.exc # NoExc THEN [st1 EXCEPT !.exc = r.exc]
            ELSE IF r.node.t \in {"str", "list"}
            THEN [st1 EXCEPT !.exc = "AttributeError"]
            ELSE IF r.node.t # "dict" THEN [st1 EXCEPT !.exc = "TypeError"]
            ELSE collect_expected_fields(spec, r.node, prefix, required, st1, depth + 1)
  ELSE IF HasKey(schema, S("allOf")) /\ Item(schema, S("allOf")).t = "list" THEN
    collect_all_of(spec, Item(schema, S("allOf")).v, 1, prefix, required, st, depth)
  ELSE
    LET t == schema_type(schema)
        fmt == StrOrNone(schema, S("format"))
        desc == StrOrNone(schema, S("description"))
        st1 == IF prefix # <<>>
               THEN [st EXCEPT !.out = record_field(st.out, prefix, t, required, fmt, desc)]
               ELSE st
    IN
    IF t = S("object") THEN
      LET props == IF Get(schema, S("properties")).t = "dict"
                   THEN Get(schema, S("properties")).v ELSE <<>>
          req_list == IF Get(schema, S("required")).t = "list"
                      THEN Get(schema, S("required")).v ELSE <<>>
          req_set == {req_list[i].v : i \in {j \in 1..Len(req_list) : req_list[j].t = "str"}}
          st2 == collect_properties(spec, props, 1, prefix, req_set, st1, depth)
      IN
      IF st2.exc # NoExc THEN st2
      ELSE IF HasKey(schema, S("additionalProperties"))
              /\ ap_permits(Item(schema, S("additionalProperties"))) THEN
        LET ap == Item(schema, S("additionalProperties"))
            st3 == IF prefix # <<>>
                   THEN [st2 EXCEPT !.open_prefixes = @ \cup {prefix}]
                   ELSE st2
        IN IF ap.t = "bool" /\ ap.v THEN st3
           ELSE IF ap.t = "dict" /\ prefix # <<>>
           THEN collect_expected_fields(spec, ap, prefix \o <<".", "*">>, FALSE, st3,
                                        depth + 1)
           ELSE st3
      ELSE st2
    ELSE IF t = S("array") THEN
      LET items == Get(schema, S("items")) IN
      IF items.t = "dict"
      THEN collect_expected_fields(spec, items,
                                   IF prefix # <<>> THEN prefix \o <<"[]">> ELSE <<"[]">>,
                                   FALSE, st1, depth + 1)
      ELSE st1
    ELSE st1

\* ------------------------------------------------------ schema documents

\* {k1: v1, ...} for one-token keys.
Dict1(k1, v1) == JDict(<< <<S(k1), v1>> >>)
Dict2(k1, v1, k2, v2) == JDict(<< <<S(k1), v1>>, <<S(k2), v2>> >>)
Dict3(k1, v1, k2, v2, k3, v3) == JDict(<< <<S(k1), v1>>, <<S(k2), v2>>, <<S(k3), v3>> >>)

Str1(tok) == JStr(S(tok))

\* {"$ref": "#/components/schemas/<name>"}
RefTo(name) == Dict1("$ref", JStr(<<"#", "/", "components", "/", "schemas", "/", name>>))

\* {"$ref": "common.json#/components/schemas/<name>"}: not a local reference.
RemoteRef(name) ==
  Dict1("$ref", JStr(<<"common.json", "#", "/", "components", "/", "schemas", "/", name>>))

Leaf(type) == Dict1("type", Str1(type))

\* {"type": "object", "properties": props}
Object(props) == Dict2("type", Str1("object"), "properties", props)

\* {"type": "array", "items": items}
ArrayOf(items) == Dict2("type", Str1("array"), "items", items)

\* The bodies a component schema Account can have.
AccountBodies ==
  [plain |-> Object(Dict1("address", Leaf("string"))),
   selfcycle |-> Object(Dict2("address", Leaf("string"), "delegate", RefTo("Account"))),
   toKey |-> Object(Dict2("address", Leaf("string"), "key", RefTo("Key"))),
   alias |-> RefTo("Account")]

\* The bodies a component schema Key can have.
KeyBodies ==
  [plain |-> Object(Dict1("index", Leaf("integer"))),
   toAccount |-> Object(Dict2("index", Leaf("integer"), "owner", RefTo("Account"))),
   list |-> Object(Dict1("rotations", ArrayOf(RefTo("Key"))))]

\* The schemas a property of the response object can have.
PropertySchemas ==
  [string |-> Leaf("string"),
   account |-> RefTo("Account"),
   key |-> RefTo("Key"),
   accounts |-> ArrayOf(RefTo("Account")),
   both |-> Dict1("allOf", JList(<<RefTo("Account"), RefTo("Key")>>)),
   missing |-> RefTo("Missing"),
   remote |-> RemoteRef("Account")]

\* The specification document with the two component schemas.
Document(paths, account, key) ==
  Dict2("paths", paths,
        "components", Dict1("schemas", Dict2("Account", AccountBodies[account],
                                             "Key", KeyBodies[key])))

\* A transaction-like response schema: an object with the properties payer and
\* proposer.
ResponseSchema(payer, proposer) ==
  Object(Dict2("payer", PropertySchemas[payer], "proposer", PropertySchemas[proposer]))

\* ------------------------------------------------------- more str helpers

\* s.rstrip("/")
RECURSIVE RStripSlash(_)
RStripSlash(s) ==
  IF s # <<>> /\ s[Len(s)] = "/" THEN RStripSlash(SubSeq(s, 1, Len(s) - 1)) ELSE s

\* "sub in s"
Contains(s, sub) ==
  \E i \in 1..(Len(s) - Len(sub) + 1) : SubSeq(s, i, i + Len(sub) - 1) = sub

\* s.replace(old, new), for a non-empty old.
RECURSIVE Replace(_, _, _)
Replace(s, old, new) ==
  IF s = <<>> THEN <<>>
  ELSE IF StartsWith(s, old)
  THEN new \o Replace(SubSeq(s, Len(old) + 1, Len(s)), old, new)
  ELSE <<Head(s)>> \o Replace(Tail(s), old, new)

\* sep.join(parts)
RECURSIVE Join(_, _)
Join(parts, sep) ==
  IF parts = <<>> THEN <<>>
  ELSE IF Len(parts) = 1 THEN parts[1]
  ELSE parts[1] \o sep \o Join(Tail(parts), sep)

\* The percent-encoding of one token; a token that is no separator is made of
\* unreserved characters and stays as it is.
QuoteToken(tok) ==
  CASE tok = "/" -> "%2F" [] tok = "?" -> "%3F" [] tok = "#" -> "%23"
    [] tok = "&" -> "%26" [] tok = "=" -> "%3D" [] tok = "{" -> "%7B"
    [] tok = "}" -> "%7D" [] tok = "[]" -> "%5B%5D" [] tok = "*" -> "%2A"
    [] tok = ":" -> "%3A" [] tok = " " -> "%20" [] OTHER -> tok

\* urllib.parse.quote(s, safe="")
quote(s) == [i \in 1..Len(s) |-> QuoteToken(s[i])]

\* urllib.parse.quote_plus(s)
quote_plus(s) == [i \in 1..Len(s) |-> IF s[i] = " " THEN "+" ELSE QuoteToken(s[i])]

\* urllib.parse.urlencode(q) for a dict q of str to str, given as its item list.
urlencode(q) ==
  Join([i \in 1..Len(q) |-> quote_plus(q[i][1]) \o <<"=">> \o quote_plus(q[i][2])], <<"&">>)

\* str(v) for a JSON scalar.
PyStr(j) ==
  CASE j.t = "str" -> j.v
    [] j.t = "int" -> S(ToString(j.v))
    [] j.t = "float" -> <<ToString(j.v \div 10), ".", ToString(j.v % 10)>>
    [] j.t = "bool" -> IF j.v THEN S("True") ELSE S("False")
    [] j.t = "null" -> S("None")

\* bool(v)
Truthy(j) ==
  CASE j.t = "null" -> FALSE
    [] j.t = "bool" -> j.v
    [] j.t \in {"int", "float"} -> j.v # 0
    [] j.t \in {"str", "list", "dict"} -> j.v # <<>>

\* q[name] = value on the item list of a dict: a present key keeps its place.
DictSet(q, name, value) ==
  IF \E i \in 1..Len(q) : q[i][1] = name
  THEN [i \in 1..Len(q) |-> IF q[i][1] = name THEN <<name, value>> ELSE q[i]]
  ELSE Append(q, <<name, value>>)

\* --------------------------------------------------------------- http_json

\* The path of a URL from its segments: Path(<<"flow", "v1">>) is "/flow/v1".
RECURSIVE Path(_)
Path(segs) == IF segs = <<>> THEN <<>> ELSE <<"/", Head(segs)>> \o Path(Tail(segs))

\* args.base
Base == <<"https://api.test/api", "/">>

\* What the live API does with one GET: it answers (a status and a body that
\* parses as JSON or not) or the transport fails.
Answer(status, body) == [kind |-> "response", status |-> status, json |-> TRUE, body |-> body, ms |-> 5]
TextAnswer(status, text) == [kind |-> "response", status |-> status, json |-> FALSE, body |-> JStr(text), ms |-> 5]
NoAnswer(kind) == [kind |-> kind, status |-> 0, json |-> FALSE, body |-> JNull, ms |-> 0]

\* The answer of the API api (a list of <<url after the base, answer>>) to a URL;
\* a route it does not know is a 404 with a JSON error body.
Respond(api, url) ==
  LET route == SubSeq(url, Len(RStripSlash(Base)) + 1, Len(url)) IN
  IF api.down THEN NoAnswer("URLError")
  ELSE IF \E i \in 1..Len(api.routes) : api.routes[i][1] = route
  THEN api.routes[CHOOSE i \in 1..Len(api.routes) : api.routes[i][1] = route][2]
  ELSE Answer(404, JDict(<< <<S("error"), JStr(S("not found"))>> >>))

\* http_json: (status, payload, ms), or the exception that urlopen raises and
\* "except urllib.error.HTTPError" does not catch.
http_json(api, url) ==
  LET a == Respond(api, url) IN
  IF a.kind # "response"
  THEN [exc |-> a.kind, status |-> 0, payload |-> JNull, ms |-> 0]
  ELSE [exc |-> NoExc, status |-> a.status, payload |-> a.body, ms |-> a.ms]

\* ------------------------------------------------------------- seed_values

NoSeeds ==
  [address |-> JNull, height |-> JNull, tx_id |-> JNull, token |-> JNull,
   nft_type |-> JNull, nft_item_id |-> JNull, identifier |-> JNull,
   evm_hash |-> JNull, evm_token_address |-> JNull]

ListQuery(limit) == <<"?", "limit", "=", limit, "&", "offset", "=", "0">>

\* safe_get(path): the payload of a 200, None for another status; an exception
\* of http_json passes through.
safe_get(api, base, path) ==
  LET r == http_json(api, RStripSlash(base) \o path) IN
  IF r.exc # NoExc THEN [exc |-> r.exc, payload |-> JNull]
  ELSE IF r.status # 200 THEN [exc |-> NoExc, payload |-> JNull]
  ELSE [exc |-> NoExc, payload |-> r.payload]

\* "isinstance(x, dict)", "isinstance(x.get('data'), list)" and the list is not
\* empty; first_of_data is then its items[0], and None otherwise (every use goes
\* on to test isinstance(., dict)).
has_data(x) ==
  x.t = "dict" /\ Get(x, S("data")).t = "list" /\ Get(x, S("data")).v # <<>>

first_of_data(x) ==
  IF has_data(x)
  THEN Get(x, S("data")).v[1]
  ELSE JNull

\* A harvesting block that made its call: the seeds after it.
Harvested(seeds) == [exc |-> NoExc, seeds |-> seeds]
HarvestRaised(exc, seeds) == [exc |-> exc, seeds |-> seeds]

seed_account(api, base, seeds) ==
  LET acc == safe_get(api, base, Path(<<"flow", "v1", "account">>) \o ListQuery("1"))
      a0 == first_of_data(acc.payload)
      s1 == IF a0.t = "dict" /\ Get(a0, S("address")).t = "str"
            THEN [seeds EXCEPT !.address = Get(a0, S("address"))] ELSE seeds
      s2 == IF a0.t = "dict" /\ Get(a0, S("height")).t # "null"
            THEN [s1 EXCEPT !.height = JStr(PyStr(Get(a0, S("height"))))] ELSE s1
  IN IF acc.exc # NoExc THEN HarvestRaised(acc.exc, seeds) ELSE Harvested(s2)

seed_block(api, base, seeds) ==
  LET blk == safe_get(api, base, Path(<<"flow", "v1", "block">>) \o ListQuery("1"))
      b0 == first_of_data(blk.payload)
  IN IF blk.exc # NoExc THEN HarvestRaised(blk.exc, seeds)
     ELSE IF b0.t = "dict" /\ Get(b0, S("height")).t # "null"
     THEN Harvested([seeds EXCEPT !.height = JStr(PyStr(Get(b0, S("height"))))])
     ELSE Harvested(seeds)

seed_transaction(api, base, seeds) ==
  LET tx == safe_get(api, base, Path(<<"flow", "v1", "transaction">>) \o ListQuery("1"))
      t0 == first_of_data(tx.payload)
  IN IF tx.exc # NoExc THEN HarvestRaised(tx.exc, seeds)
     ELSE IF t0.t = "dict" /\ Get(t0, S("id")).t = "str"
     THEN Harvested([seeds EXCEPT !.tx_id = Get(t0, S("id"))])
     ELSE Harvested(seeds)

seed_contract(api, base, seeds) ==
  LET c == safe_get(api, base, Path(<<"flow", "v1", "contract">>) \o ListQuery("1"))
      c0 == first_of_data(c.payload)
  IN IF c.exc # NoExc THEN HarvestRaised(c.exc, seeds)
     ELSE IF c0.t = "dict" /\ Get(c0, S("identifier")).t = "str"
     THEN Harvested([seeds EXCEPT !.identifier = Get(c0, S("identifier"))])
     ELSE Harvested(seeds)

\* "for it in items" of the fungible-token block, from index i on.
RECURSIVE ft_loop(_, _, _, _, _)
ft_loop(api, base, items, i, seeds) ==
  IF i > Len(items) THEN Harvested(seeds)
  ELSE IF items[i].t # "dict" \/ Get(items[i], S("id")).t # "str"
  THEN ft_loop(api, base, items, i + 1, seeds)
  ELSE
    LET token == Get(items[i], S("id"))
        holding == safe_get(api, base,
                     Path(<<"flow", "v1", "ft">>) \o <<"/">> \o quote(token.v)
                       \o Path(<<"holding">>) \o ListQuery("1"))
        h0 == first_of_data(holding.payload)
    IN IF holding.exc # NoExc THEN HarvestRaised(holding.exc, seeds)
       ELSE IF ~has_data(holding.payload)
       THEN ft_loop(api, base, items, i + 1, seeds)
       ELSE IF h0.t = "dict" /\ Get(h0, S("address")).t = "str"
       THEN Harvested([seeds EXCEPT !.token = token, !.address = Get(h0, S("address"))])
       ELSE Harvested([seeds EXCEPT !.token = token])

seed_ft(api, base, seeds) ==
  LET ft == safe_get(api, base, Path(<<"flow", "v1", "ft">>) \o ListQuery("5")) IN
  IF ft.exc # NoExc THEN HarvestRaised(ft.exc, seeds)
  ELSE IF ft.payload.t = "dict" /\ Get(ft.payload, S("data")).t = "list"
  THEN ft_loop(api, base, Get(ft.payload, S("data")).v, 1, seeds)
  ELSE Harvested(seeds)

\* "for it in items" of the NFT block, from index i on.
RECURSIVE nft_loop(_, _, _, _, _)
nft_loop(api, base, items, i, seeds) ==
  IF i > Len(items) THEN Harvested(seeds)
  ELSE IF items[i].t # "dict" \/ Get(items[i], S("id")).t # "str"
  THEN nft_loop(api, base, items, i + 1, seeds)
  ELSE
    LET nft_type == Get(items[i], S("id"))
        holding == safe_get(api, base,
                     Path(<<"flow", "v1", "nft">>) \o <<"/">> \o quote(nft_type.v)
                       \o Path(<<"holding">>) \o ListQuery("1"))
        h0 == first_of_data(holding.payload)
    IN IF holding.exc # NoExc THEN HarvestRaised(holding.exc, seeds)
       ELSE IF ~has_data(holding.payload)
       THEN nft_loop(api, base, items, i + 1, seeds)
       ELSE IF h0.t = "dict" /\ Get(h0, S("owner")).t = "str"
       THEN Harvested([seeds EXCEPT !.nft_type = nft_type, !.address = Get(h0, S("owner"))])
       ELSE Harvested([seeds EXCEPT !.nft_type = nft_type])

\* An NFT block that also harvests an item id of the collection it found.
seed_nft_item(api, base, seeds) ==
  LET nft == safe_get(api, base, Path(<<"flow", "v1", "nft">>) \o ListQuery("5"))
      r == IF nft.payload.t = "dict" /\ Get(nft.payload, S("data")).t = "list"
           THEN nft_loop(api, base, Get(nft.payload, S("data")).v, 1, seeds)
           ELSE Harvested(seeds)
  IN IF nft.exc # NoExc THEN HarvestRaised(nft.exc, seeds)
     ELSE IF r.exc = NoExc /\ r.seeds.nft_type # JNull
     THEN Harvested([r.seeds EXCEPT !.nft_item_id = Str1("42")])
     ELSE r

\* An NFT block that keeps an address that is already set.
seed_nft_keep_address(api, base, seeds) ==
  LET nft == safe_get(api, base, Path(<<"flow", "v1", "nft">>) \o ListQuery("5"))
      r == IF nft.payload.t = "dict" /\ Get(nft.payload, S("data")).t = "list"
           THEN nft_loop(api, base, Get(nft.payload, S("data")).v, 1, seeds)
           ELSE Harvested(seeds)
  IN IF nft.exc # NoExc THEN HarvestRaised(nft.exc, seeds)
     ELSE IF seeds.address # JNull /\ r.exc = NoExc
     THEN Harvested([r.seeds EXCEPT !.address = seeds.address])
     ELSE r

\* The NFT block of seed_values (lines 386-402).
seed_nft(api, base, seeds) ==
  LET nft == safe_get(api, base, Path(<<"flow", "v1", "nft">>) \o ListQuery("5")) IN
  IF nft.exc # NoExc THEN HarvestRaised(nft.exc, seeds)
  ELSE IF nft.payload.t = "dict" /\ Get(nft.payload, S("data")).t = "list"
  THEN nft_loop(api, base, Get(nft.payload, S("data")).v, 1, seeds)
  ELSE Harvested(seeds)

seed_evm(api, base, seeds) ==
  LET evm == safe_get(api, base,
               Path(<<"flow", "v1", "evm", "transaction">>) \o ListQuery("1"))
      e0 == first_of_data(evm.payload)
  IN IF evm.exc # NoExc THEN HarvestRaised(evm.exc, seeds)
     ELSE IF e0.t = "dict" /\ Get(e0, S("hash")).t = "str"
     THEN Harvested([seeds EXCEPT !.evm_hash = Get(e0, S("hash"))])
     ELSE Harvested(seeds)

seed_evm_token(api, base, seeds) ==
  LET evm_token == safe_get(api, base,
                     Path(<<"flow", "v1", "evm", "token">>) \o ListQuery("1"))
      t0 == first_of_data(evm_token.payload)
      addr == IF t0.t = "dict"
              THEN IF Truthy(Get(t0, S("address"))) THEN Get(t0, S("address"))
                   ELSE Get(t0, S("id"))
              ELSE JNull
  IN IF evm_token.exc # NoExc THEN HarvestRaised(evm_token.exc, seeds)
     ELSE IF addr.t = "str"
     THEN Harvested([seeds EXCEPT !.evm_token_address = addr])
     ELSE Harvested(seeds)

\* -------------------------------------------------------- fill_path_params

\* The names of the {param} segments among segs, in order.
RECURSIVE path_params(_)
path_params(segs) ==
  IF segs = <<>> THEN <<>>
  ELSE LET seg == Head(segs) IN
       IF seg # <<>> /\ seg[1] = "{" /\ seg[Len(seg)] = "}" /\ Len(seg) >= 2
       THEN <<SubSeq(seg, 2, Len(seg) - 1)>> \o path_params(Tail(segs))
       ELSE path_params(Tail(segs))

\* defaults.get(p)
path_default(p, seeds) ==
  CASE p = S("address") -> seeds.address
    [] p = S("height") -> seeds.height
    [] p = S("id") -> seeds.tx_id
    [] p = S("transaction_id") -> seeds.tx_id
    [] p = S("token") -> seeds.token
    [] p = S("nft_type") -> seeds.nft_type
    [] p = S("identifier") -> seeds.identifier
    [] p = S("hash") -> seeds.evm_hash
    [] p = S("epoch") -> JStr(S("current"))
    [] p = S("role") -> JStr(S("collection"))
    [] p = S("node_id") -> JStr(S("0"))
    [] p = S("timescale") -> JStr(S("daily"))
    [] OTHER -> JNull

ContractItemPattern == <<"/", "contract", "/", "{", "identifier", "}", "/", "{", "id", "}">>
NftItemPattern == <<"/", "nft", "/", "{", "nft_type", "}", "/", "item", "/", "{", "id", "}">>
EvmTokenPattern == Path(<<"flow", "v1", "evm", "token">>) \o <<"/", "{", "address", "}">>

\* The value of the path parameter p of path, with the context-aware overrides.
path_value(p, path, seeds) ==
  LET val0 == path_default(p, seeds)
      val1 == IF p = S("id") /\ Contains(path, ContractItemPattern)
              THEN seeds.identifier ELSE val0
      val2 == IF p = S("id") /\ Contains(path, NftItemPattern)
              THEN seeds.nft_item_id ELSE val1
  IN IF p = S("address") /\ Contains(path, EvmTokenPattern)
     THEN seeds.evm_token_address ELSE val2

\* "for p in params", from index i on: (filled, ok, reason).
RECURSIVE fill_loop(_, _, _, _, _)
fill_loop(path, params, i, filled, seeds) ==
  IF i > Len(params) THEN [filled |-> filled, ok |-> TRUE, reason |-> JNull]
  ELSE LET p == params[i]
           val == path_value(p, path, seeds)
       IN IF val.t = "null"
          THEN [filled |-> path, ok |-> FALSE,
                reason |-> JStr(<<"missing path param ">> \o p)]
          ELSE fill_loop(path, params, i + 1,
                         Replace(filled, <<"{">> \o p \o <<"}">>, quote(PyStr(val))),
                         seeds)

\* A substitution that never gives up: it returns the path as it stands.
fill_path_params_unchecked(path, seeds) ==
  [filled |-> path, ok |-> TRUE, reason |-> JNull]

\* Lines 425-465.
fill_path_params(path, seeds) ==
  LET params == path_params(Split(path, "/")) IN
  IF params = <<>> THEN [filled |-> path, ok |-> TRUE, reason |-> JNull]
  ELSE fill_loop(path, params, 1, path, seeds)

\* ----------------------------------- get_parameters, find_response_schema

\* [x for x in xs if isinstance(x, dict)]
RECURSIVE only_dicts(_)
only_dicts(xs) ==
  IF xs = <<>> THEN <<>>
  ELSE IF Head(xs).t = "dict" THEN <<Head(xs)>> \o only_dicts(Tail(xs))
  ELSE only_dicts(Tail(xs))

get_parameters(op) ==
  IF Get(op, S("parameters")).t # "list" THEN <<>>
  ELSE only_dicts(Get(op, S("parameters")).v)

\* k.startswith("2") for a response key (a status code is one token).
starts_with_2(k) ==
  k # <<>> /\ k[1] \in {"2", "200", "201", "202", "203", "204", "206", "2XX"}

\* The key of the success response of resp, or None.
response_key(resp) ==
  IF HasKey(resp, S("200")) THEN JStr(S("200"))
  ELSE IF HasKey(resp, S("201")) THEN JStr(S("201"))
  ELSE IF HasKey(resp, S("202")) THEN JStr(S("202"))
  ELSE IF \E i \in 1..Len(resp.v) : starts_with_2(resp.v[i][1])
  THEN JStr(resp.v[CHOOSE i \in 1..Len(resp.v) :
                     /\ starts_with_2(resp.v[i][1])
                     /\ \A j \in 1..(i - 1) : ~starts_with_2(resp.v[j][1])][1])
  ELSE JNull

\* "return schema if isinstance(schema, dict) else None" for a media-type dict v.
schema_of(v) == IF Get(v, S("schema")).t = "dict" THEN Get(v, S("schema")) ELSE JNull

find_response_schema(op) ==
  LET resp == Get(op, S("responses")) IN
  IF resp.t # "dict" THEN JNull
  ELSE LET key == response_key(resp) IN
  IF key.t = "null" THEN JNull
  ELSE LET r == Get(resp, key.v) IN
  IF r.t # "dict" THEN JNull
  ELSE LET content == Get(r, S("content")) IN
  IF content.t # "dict" THEN JNull
  ELSE IF Get(content, S("application/json")).t = "dict"
  THEN schema_of(Item(content, S("application/json")))
  ELSE IF \E i \in 1..Len(content.v) : content.v[i][2].t = "dict"
  THEN schema_of(content.v[CHOOSE i \in 1..Len(content.v) :
                             /\ content.v[i][2].t = "dict"
                             /\ \A j \in 1..(i - 1) : content.v[j][2].t # "dict"][2])
  ELSE JNull

\* ------------------------------------------------------------- build_query

\* A query value without the placeholders of the required parameters (lines
\* 519-533 left out).
query_value_known_only(name, required, schema, seeds) ==
  LET default == Get(schema, S("default"))
      enum == IF Get(schema, S("enum")).t = "list" THEN Get(schema, S("enum")) ELSE JNull
  IN
  IF name = S("limit") THEN JStr(S("1"))
  ELSE IF name = S("offset") THEN JStr(S("0"))
  ELSE IF default.t # "null" THEN JStr(PyStr(default))
  ELSE IF Truthy(enum) THEN JStr(PyStr(enum.v[1]))
  ELSE IF name \in {S("fromBlock"), S("toBlock")}
  THEN IF Truthy(seeds.height) THEN seeds.height ELSE JStr(S("0"))
  ELSE IF name \in {S("start_date"), S("end_date")} THEN JStr(S("2020-01-01"))
  ELSE IF name = S("direction") THEN JStr(S("in"))
  ELSE IF name = S("id") THEN JStr(S("0"))
  ELSE JNull

\* The value build_query gives the query parameter name, or None when it
\* leaves the parameter unset.
query_value(name, required, schema, seeds) ==
  LET default == Get(schema, S("default"))
      enum == IF Get(schema, S("enum")).t = "list" THEN Get(schema, S("enum")) ELSE JNull
      typ == IF Get(schema, S("type")).t = "str" THEN Get(schema, S("type")).v
             ELSE S("string")
  IN
  IF name = S("limit") THEN JStr(S("1"))
  ELSE IF name = S("offset") THEN JStr(S("0"))
  ELSE IF default.t # "null" THEN JStr(PyStr(default))
  ELSE IF Truthy(enum) THEN JStr(PyStr(enum.v[1]))
  ELSE IF name \in {S("fromBlock"), S("toBlock")}
  THEN IF Truthy(seeds.height) THEN seeds.height ELSE JStr(S("0"))
  ELSE IF name \in {S("start_date"), S("end_date")} THEN JStr(S("2020-01-01"))
  ELSE IF name = S("direction") THEN JStr(S("in"))
  ELSE IF name = S("id") THEN JStr(S("0"))
  ELSE IF required
  THEN IF name \in {S("from"), S("to")} THEN JStr(S("2020-01-01"))
       ELSE IF name = S("events") THEN JStr(S("Flow.AccountCreated"))
       ELSE IF typ = S("integer") THEN JStr(S("0"))
       ELSE IF typ = S("number") THEN JStr(S("0"))
       ELSE JStr(S("0"))
  ELSE JNull

\* "for p in params", from index i on: the dict q as its item list.
RECURSIVE build_query_loop(_, _, _, _)
build_query_loop(params, i, q, seeds) ==
  IF i > Len(params) THEN q
  ELSE LET p == params[i]
           name == Get(p, S("name"))
           schema == IF Get(p, S("schema")).t = "dict" THEN Get(p, S("schema"))
                     ELSE JDict(<<>>)
       IN IF Get(p, S("in")).t # "str" \/ Get(p, S("in")).v # S("query")
          THEN build_query_loop(params, i + 1, q, seeds)
          ELSE IF name.t # "str" THEN build_query_loop(params, i + 1, q, seeds)
          ELSE LET value == query_value(name.v, Truthy(Get(p, S("required"))), schema, seeds)
               IN build_query_loop(params, i + 1,
                                   IF value.t = "null" THEN q
                                   ELSE DictSet(q, name.v, value.v),
                                   seeds)

build_query(params, seeds) ==
  [q |-> build_query_loop(params, 1, <<>>, seeds), missing_required |-> <<>>]

\* ------------------------------------------------------------ str order

\* The tokens of the endpoint paths and of the field paths in ascending order of
\* Python's str comparison. Comparing two paths token by token is comparing them
\* as str as long as no token met is a proper prefix of the token it is compared
\* to, which holds of the paths of the documents and payloads of the model.
PathAlphabet ==
  <<"*", ".", "/", "[]", "_links", "_meta", "account", "address", "block", "contract",
    "createdAt", "data", "delegate", "error", "evm", "flow", "height", "id", "index",
    "item", "items", "k", "key", "meta", "nft", "nft_type", "note", "ok", "owner",
    "payer", "proposer", "q", "rotations", "status", "token", "transaction", "v1", "z",
    "{", "}">>

Rank(tok) == CHOOSE i \in 1..Len(PathAlphabet) : PathAlphabet[i] = tok

\* p < q for two str.
RECURSIVE StrLess(_, _)
StrLess(p, q) ==
  IF q = <<>> THEN FALSE
  ELSE IF p = <<>> THEN TRUE
  ELSE IF Head(p) = Head(q) THEN StrLess(Tail(p), Tail(q))
  ELSE Rank(Head(p)) < Rank(Head(q))

\* sorted(d.items(), key=lambda kv: kv[0]) for a dict with the key set ks: the
\* keys in ascending order.
RECURSIVE sorted_keys(_)
sorted_keys(ks) ==
  IF ks = {} THEN <<>>
  ELSE LET k == CHOOSE p \in ks : \A q \in ks \ {p} : StrLess(p, q)
       IN <<k>> \o sorted_keys(ks \ {k})

\* ------------------------------------------------ collect_observed_fields

_type_of_value(v) ==
  CASE v.t = "null" -> S("null")
    [] v.t = "bool" -> S("boolean")
    [] v.t = "int" -> S("integer")
    [] v.t = "float" -> S("number")
    [] v.t = "str" -> S("string")
    [] v.t = "list" -> S("array")
    [] v.t = "dict" -> S("object")

\* The sample of a value; no str of the model has more than 120 characters.
_sample_value(v) ==
  CASE v.t = "null" -> S("null")
    [] v.t \in {"bool", "int", "float"} -> PyStr(v)
    [] v.t = "str" -> v.v
    [] v.t = "list" -> <<"array(len=", ToString(Len(v.v)), ")">>
    [] v.t = "dict" ->
         LET keys == [i \in 1..Len(v.v) |-> v.v[i][1]]
             first == SubSeq(keys, 1, IF Len(keys) > 8 THEN 8 ELSE Len(keys))
         IN <<"object(keys=">> \o Join(first, <<",">>)
              \o (IF Len(keys) > 8 THEN <<",...">> ELSE <<>>) \o <<")">>

ObservedField(path, observed_type, sample) ==
  [path |-> path, observed_type |-> observed_type, sample |-> sample]

\* d[k] = v on a dict held as a function.
Put(d, k, v) == [x \in DOMAIN d \cup {k} |-> IF x = k THEN v ELSE d[x]]

\* The two collections collect_observed_fields fills.
Observed(out, array_lengths) == [out |-> out, array_lengths |-> array_lengths]

RECURSIVE collect_observed_fields(_, _, _)
RECURSIVE collect_observed_items(_, _, _, _)

\* for k, v in payload.items(), from index i on.
collect_observed_items(items, i, prefix, st) ==
  IF i > Len(items) THEN st
  ELSE collect_observed_items(items, i + 1, prefix,
         collect_observed_fields(items[i][2],
                                 IF prefix # <<>> THEN prefix \o <<".">> \o items[i][1]
                                 ELSE items[i][1],
                                 st))

collect_observed_fields(payload, prefix, st) ==
  LET st1 == IF prefix # <<>>
             THEN Observed(Put(st.out, prefix,
                               ObservedField(prefix, _type_of_value(payload),
                                             _sample_value(payload))),
                           st.array_lengths)
             ELSE st
  IN
  IF payload.t = "dict" THEN collect_observed_items(payload.v, 1, prefix, st1)
  ELSE IF payload.t = "list" THEN
    LET st2 == IF prefix # <<>>
               THEN Observed(st1.out, Put(st1.array_lengths, prefix, Len(payload.v)))
               ELSE st1
    IN IF payload.v # <<>>
       THEN collect_observed_fields(payload.v[1],
                                    IF prefix # <<>> THEN prefix \o <<"[]">> ELSE <<"[]">>,
                                    st2)
       ELSE st2
  ELSE st1

\* ---------------------------------------------------------- classification

\* A cover by textual prefix alone.
is_allowed_extra_textual(path, open_prefixes) ==
  \E p \in open_prefixes : StartsWith(path, p)

\* Lines 248-254.
is_allowed_extra(path, open_prefixes) ==
  \E p \in open_prefixes :
    path = p \/ StartsWith(path, p \o <<".">>) \/ StartsWith(path, p \o <<"[]">>)

\* A compatibility that takes integer and number for each other both ways.
expected_allows_observed_symmetric(expected_type, observed_type) ==
  \/ expected_type = S("unknown")
  \/ expected_type = observed_type
  \/ {expected_type, observed_type} = {S("number"), S("integer")}

\* Lines 257-265.
expected_allows_observed(expected_type, observed_type) ==
  \/ expected_type = S("unknown")
  \/ expected_type = observed_type
  \/ expected_type = S("number") /\ observed_type = S("integer")

\* array_prefix_for of audit_endpoint: p.split("[]", 1)[0], None without "[]".
array_prefix_for(p) ==
  IF \A i \in 1..Len(p) : p[i] # "[]" THEN JNull ELSE JStr(Split(p, "[]")[1])

\* ------------------------------------------------------ semantic_warnings

\* The runs of 16 and of 64 lowercase hex digits that sample values hold, each
\* one token.
Hex16 == {"1654653399040a61"}
Hex64 == {"7a1c0f3e9b2d4c5a6e8f0a1b2c3d4e5f60718293a4b5c6d7e8f9011223344556"}

\* The tokens that are one character, and those that match [A-Za-z0-9_]+.
Chars == {".", "\\", "A", "Z"}
Words == Hex16 \cup Hex64 \cup {"A", "Z", "0x", "FlowToken", "Vault", "xyz"}

\* FLOW_ADDRESS_RE.match(v): ^(0x)?[0-9a-f]{16}$
FLOW_ADDRESS_RE(v) == \E h \in Hex16 : v = <<h>> \/ v = <<"0x", h>>

\* FLOW_ID_64_RE.match(v): ^[0-9a-f]{64}$
FLOW_ID_64_RE(v) == \E h \in Hex64 : v = <<h>>

\* EVM_HASH_RE.match(v): ^(0x)?[0-9a-f]{64}$
EVM_HASH_RE(v) == \E h \in Hex64 : v = <<h>> \/ v = <<"0x", h>>

\* CADENCE_TYPE_RE.match(v). The pattern is the raw string
\* ^A\\.[0-9a-f]{16}\\.[A-Za-z0-9_]+(\\.[A-Za-z0-9_]+)?$ in which \\ is a
\* backslash and . is any one character: A, a backslash, a character, 16 hex
\* digits, a backslash, a character, a word, and once more at most a backslash,
\* a character and a word.
CADENCE_TYPE_RE(v) ==
  LET head(w) == /\ Len(w) = 7
                 /\ w[1] = "A" /\ w[2] = "\\" /\ w[3] \in Chars /\ w[4] \in Hex16
                 /\ w[5] = "\\" /\ w[6] \in Chars /\ w[7] \in Words
  IN \/ head(v)
     \/ /\ Len(v) = 10
        /\ head(SubSeq(v, 1, 7))
        /\ v[8] = "\\" /\ v[9] \in Chars /\ v[10] \in Words

\* datetime.fromisoformat(s) returns, on the str of the model.
fromisoformat_ok(s) ==
  s \in {<<"2024-01-01T00:00:00", "+00:00">>, <<"2024-01-01">>}

rfc3339_ok(s) ==
  fromisoformat_ok(IF s # <<>> /\ s[Len(s)] = "Z"
                   THEN SubSeq(s, 1, Len(s) - 1) \o <<"+00:00">>
                   ELSE s)

\* semantic_warnings; observed is None (JNull) or an ObservedField.
semantic_warnings(field, observed) ==
  IF observed = JNull THEN <<>>
  ELSE IF observed.observed_type # S("string") THEN <<>>
  ELSE
    LET parts == Split(field.path, ".")
        key == parts[Len(parts)]
        v == observed.sample
        live == v # <<>> /\ v # S("null")
        warn(cond, tag) == IF cond THEN <<S(tag)>> ELSE <<>>
    IN
    warn((field.fmt = JStr(S("date-time"))
            \/ key \in {S("timestamp"), S("created_at"), S("updated_at"),
                        S("valid_from"), S("valid_to")})
           /\ live /\ ~rfc3339_ok(v),
         "timestamp_not_rfc3339")
    \o warn(key \in {S("address"), S("payer"), S("proposer"), S("primaryAddress"),
                     S("secondaryAddress"), S("owner")}
              /\ live /\ ~FLOW_ADDRESS_RE(v),
            "address_format")
    \o warn(key \in {S("block_id"), S("collection_id"), S("transaction_id")}
              /\ live /\ ~FLOW_ID_64_RE(v),
            "flow_id_format")
    \o warn(key \in {S("hash"), S("transaction_hash"), S("tx_hash"), S("evm_hash")}
              /\ live /\ ~EVM_HASH_RE(v),
            "evm_hash_format")
    \o warn(key \in {S("token"), S("identifier"), S("nft_type")}
              /\ live /\ ~StartsWith(v, <<"A", ".">>),
            "cadence_type_expected")
    \o warn(key \in {S("token"), S("identifier"), S("nft_type")}
              /\ live /\ StartsWith(v, <<"A", ".">>) /\ ~CADENCE_TYPE_RE(v),
            "cadence_type_format")

\* ---------------------------------------------------------- audit_endpoint

FieldResult(field, expected_type, observed_type, status, required, sample, warnings) ==
  [field |-> field, expected_type |-> expected_type, observed_type |-> observed_type,
   status |-> status, required |-> required, sample |-> sample, warnings |-> warnings]

EndpointResult(path, url, http_status, latency_ms, skip_reason, summary, field_results, extra_fields) ==
  [method |-> S("GET"), path |-> path, url |-> url, http_status |-> http_status,
   latency_ms |-> latency_ms, skip_reason |-> skip_reason, summary |-> summary,
   field_results |-> field_results, extra_fields |-> extra_fields]

\* The result of an endpoint that is not probed.
Skipped(path, reason) == EndpointResult(path, JNull, JNull, JNull, reason, <<>>, <<>>, <<>>)

\* Lines 681-687: the status of an expected field that was not observed.
status_unobserved(fpath, array_lengths) ==
  LET ap == array_prefix_for(fpath) IN
  IF Truthy(ap) /\ ap.v \in DOMAIN array_lengths /\ array_lengths[ap.v] = 0
  THEN S("UNVERIFIED_EMPTY_ARRAY")
  ELSE S("MISSING")

\* A classification that tests the type compatibility before the null.
status_observed_type_first(expected_type, observed_type) ==
  IF expected_allows_observed(expected_type, observed_type) THEN S("OK")
  ELSE IF observed_type = S("null") THEN S("NULL")
  ELSE S("TYPE_MISMATCH")

\* Lines 701-709: the status of an expected field that was observed.
status_observed(expected_type, observed_type) ==
  IF observed_type = S("null") THEN S("NULL")
  ELSE IF expected_allows_observed(expected_type, observed_type) THEN S("OK")
  ELSE S("TYPE_MISMATCH")

\* A loop body whose status gives way to the warnings: a field with a warning
\* is a TYPE_MISMATCH.
field_result_warned(ef, obs) ==
  IF ef.path \notin DOMAIN obs.out
  THEN FieldResult(ef.path, ef.expected_type, JNull,
                   status_unobserved(ef.path, obs.array_lengths), ef.required, JNull, <<>>)
  ELSE LET o == obs.out[ef.path]
           warns == semantic_warnings(ef, o)
       IN FieldResult(ef.path, ef.expected_type, JStr(o.observed_type),
                      IF warns # <<>> THEN S("TYPE_MISMATCH")
                      ELSE status_observed(ef.expected_type, o.observed_type),
                      ef.required, JStr(o.sample), warns)

\* The body of the loop of lines 678-722 for one expected field.
field_result(ef, obs) ==
  IF ef.path \notin DOMAIN obs.out
  THEN FieldResult(ef.path, ef.expected_type, JNull,
                   status_unobserved(ef.path, obs.array_lengths), ef.required, JNull, <<>>)
  ELSE LET o == obs.out[ef.path] IN
       FieldResult(ef.path, ef.expected_type, JStr(o.observed_type),
                   status_observed(ef.expected_type, o.observed_type), ef.required,
                   JStr(o.sample), semantic_warnings(ef, o))

\* A count that takes every status for OK.
count_status_all_ok(counts, st) == [counts EXCEPT !.ok = @ + 1]

\* counts[...] += 1 for a status.
count_status(counts, st) ==
  CASE st = S("OK") -> [counts EXCEPT !.ok = @ + 1]
    [] st = S("MISSING") -> [counts EXCEPT !.missing = @ + 1]
    [] st = S("NULL") -> [counts EXCEPT !.null = @ + 1]
    [] st = S("TYPE_MISMATCH") -> [counts EXCEPT !.type_mismatch = @ + 1]
    [] st = S("UNVERIFIED_EMPTY_ARRAY") -> [counts EXCEPT !.unverified_empty_array = @ + 1]

\* The loop of lines 678-722 over the sorted expected fields, from index i on.
RECURSIVE classify_loop(_, _, _, _, _, _)
classify_loop(keys, i, expected, obs, field_results, counts) ==
  IF i > Len(keys) THEN [field_results |-> field_results, counts |-> counts]
  ELSE LET fr == field_result(expected[keys[i]], obs) IN
       classify_loop(keys, i + 1, expected, obs, Append(field_results, fr),
                     count_status(counts, fr.status))

\* A classification that walks the expected fields in descending order.
classify_descending(expected, obs) ==
  LET keys == sorted_keys(DOMAIN expected) IN
  classify_loop([i \in 1..Len(keys) |-> keys[Len(keys) + 1 - i]], 1, expected, obs, <<>>,
                [expected |-> Cardinality(DOMAIN expected), ok |-> 0, missing |-> 0,
                 null |-> 0, type_mismatch |-> 0, unverified_empty_array |-> 0])

\* Lines 669-722.
classify(expected, obs) ==
  classify_loop(sorted_keys(DOMAIN expected), 1, expected, obs, <<>>,
                [expected |-> Cardinality(DOMAIN expected), ok |-> 0, missing |-> 0,
                 null |-> 0, type_mismatch |-> 0, unverified_empty_array |-> 0])

\* Lines 724-731.
extra_fields(payload, expected, observed, open_prefixes) ==
  IF payload.t \notin {"dict", "list"} THEN <<>>
  ELSE LET is_extra(opath) == opath \notin DOMAIN expected
                               /\ ~is_allowed_extra(opath, open_prefixes)
           paths == SelectSeq(sorted_keys(DOMAIN observed), is_extra)
       IN [i \in 1..Len(paths) |-> observed[paths[i]]]

\* Lines 664-747: the analysis of a payload against the expected fields and the
\* open prefixes of the response schema.
analyse(path, url, status, latency_ms, payload, expected, open_prefixes) ==
  LET obs == IF payload.t \in {"dict", "list"}
             THEN collect_observed_fields(payload, <<>>, Observed(<<>>, <<>>))
             ELSE Observed(<<>>, <<>>)
      cl == classify(expected, obs)
      extra == extra_fields(payload, expected, obs.out, open_prefixes)
      summary == [expected |-> cl.counts.expected, ok |-> cl.counts.ok,
                  missing |-> cl.counts.missing, null |-> cl.counts.null,
                  type_mismatch |-> cl.counts.type_mismatch,
                  unverified_empty_array |-> cl.counts.unverified_empty_array,
                  extra |-> Len(extra), http_status |-> status]
  IN EndpointResult(path, url, status, latency_ms, JNull, summary, cl.field_results, extra)

\* audit_endpoint up to the URL (lines 622-653): the skip result, or the URL of
\* the one GET.
audit_prepare(base, path, op, seeds) ==
  LET f == fill_path_params(path, seeds)
      bq == build_query(get_parameters(op), seeds)
      url == RStripSlash(base) \o f.filled
  IN
  IF ~f.ok THEN [skip |-> TRUE, url |-> <<>>, result |-> Skipped(path, f.reason)]
  ELSE IF bq.missing_required # <<>>
  THEN [skip |-> TRUE, url |-> <<>>,
        result |-> Skipped(path, JStr(<<"missing required query params: ">>
                                       \o Join(bq.missing_required, <<", ">>)))]
  ELSE [skip |-> FALSE,
        url |-> IF bq.q # <<>> THEN url \o <<"?">> \o urlencode(bq.q) ELSE url,
        result |-> JNull]

\* Lines 658-662: the expected fields and the open prefixes of a response schema,
\* from a fresh visited-reference set.
expected_of(spec, schema) ==
  LET walk == collect_expected_fields(spec, schema, <<>>, FALSE, EmptyWalk, 1) IN
  IF walk.exc # NoExc THEN walk
  ELSE [walk EXCEPT !.open_prefixes = @ \cup {S("_meta"), S("_links")}]

\* An analysis that stops at a status that is no 2xx: the status is recorded
\* and no field is compared.
audit_analyse_2xx_only(spec, path, op, url, http) ==
  LET found == find_response_schema(op)
      schema == IF Truthy(found) THEN found ELSE JDict(<<>>)
      walk == expected_of(spec, schema)
  IN
  IF http.exc # NoExc THEN [exc |-> http.exc, result |-> JNull]
  ELSE IF walk.exc # NoExc THEN [exc |-> walk.exc, result |-> JNull]
  ELSE IF http.status \notin 200..299
  THEN [exc |-> NoExc,
        result |-> EndpointResult(path, JStr(url), JInt(http.status), JInt(http.ms), JNull,
                                  <<>>, <<>>, <<>>)]
  ELSE [exc |-> NoExc,
        result |-> analyse(path, JStr(url), JInt(http.status), JInt(http.ms), http.payload,
                           walk.out, walk.open_prefixes)]

\* audit_endpoint from the answer of http_json on (lines 655-747): the result,
\* or the exception that ends the call.
audit_analyse(spec, path, op, url, http) ==
  LET found == find_response_schema(op)
      schema == IF Truthy(found) THEN found ELSE JDict(<<>>)
      walk == expected_of(spec, schema)
  IN
  IF http.exc # NoExc THEN [exc |-> http.exc, result |-> JNull]
  ELSE IF walk.exc # NoExc THEN [exc |-> walk.exc, result |-> JNull]
  ELSE [exc |-> NoExc,
        result |-> analyse(path, JStr(url), JInt(http.status), JInt(http.ms), http.payload,
                           walk.out, walk.open_prefixes)]

audit_endpoint(spec, base, path, op, seeds, api) ==
  LET prep == audit_prepare(base, path, op, seeds) IN
  IF prep.skip THEN [exc |-> NoExc, result |-> prep.result]
  ELSE audit_analyse(spec, path, op, prep.url, http_json(api, prep.url))

\* --------------------------------------------- specification documents

\* An operation with its parameters and the schema of its 200 response.
Operation(parameters, schema) ==
  Dict2("parameters", JList(parameters),
        "responses", Dict1("200", Dict1("content",
                       Dict1("application/json", Dict1("schema", schema)))))

QueryParameter(name, required, schema) ==
  JDict(<< <<S("name"), Str1(name)>>, <<S("in"), Str1("query")>>,
           <<S("required"), JBool(required)>>, <<S("schema"), schema>> >>)

PathParameter(name) ==
  Dict3("name", Str1(name), "in", Str1("path"), "required", JBool(TRUE))

StatusPath == Path(<<"status">>)
TransactionPath == Path(<<"flow", "v1", "transaction">>) \o <<"/", "{", "id", "}">>
AccountPath == Path(<<"flow", "v1", "account">>) \o <<"/", "{", "address", "}">>
BlockPath == Path(<<"flow", "v1", "block">>)
ContractPath == Path(<<"flow", "v1", "contract">>)
NftItemPath ==
  Path(<<"flow", "v1", "nft">>) \o <<"/", "{", "nft_type", "}">> \o Path(<<"item">>)
    \o <<"/", "{", "id", "}">>

StatusItem == Dict1("get", Operation(<<>>, Object(Dict1("ok", Leaf("boolean")))))

TransactionItem(payer, proposer) ==
  Dict1("get", Operation(<<PathParameter("id")>>, ResponseSchema(payer, proposer)))

AccountItem ==
  Dict2("get", Operation(<<PathParameter("address")>>, RefTo("Account")),
        "post", Operation(<<>>, Leaf("object")))

\* A path with no GET operation.
BlockItem == Dict1("post", Operation(<<>>, Leaf("object")))

ContractItem ==
  Dict1("get", Operation(<<QueryParameter("limit", FALSE, Leaf("integer")),
                           QueryParameter("offset", FALSE, Leaf("integer")),
                           QueryParameter("kind", TRUE, Leaf("string")),
                           QueryParameter("verbose", FALSE, Leaf("boolean"))>>,
                         Object(Dict1("data", ArrayOf(RefTo("Key"))))))

NftItemItem ==
  Dict1("get", Operation(<<PathParameter("nft_type"), PathParameter("id")>>,
                         Leaf("object")))

\* The specification files a run can be given (args.spec) and what load_json
\* reads from each.
SpecFiles == {"openapi-v2.json", "broken-ref.json", "cyclic.json", "no-paths.json"}

load_json(path) ==
  CASE path = "openapi-v2.json" ->
         Document(JDict(<< <<StatusPath, StatusItem>>,
                           <<TransactionPath, TransactionItem("account", "account")>>,
                           <<BlockPath, BlockItem>>,
                           <<AccountPath, AccountItem>> >>),
                  "plain", "plain")
    [] path = "broken-ref.json" ->
         Document(JDict(<< <<TransactionPath, TransactionItem("string", "missing")>>,
                           <<StatusPath, StatusItem>>,
                           <<ContractPath, ContractItem>> >>),
                  "plain", "plain")
    [] path = "cyclic.json" ->
         Document(JDict(<< <<TransactionPath, TransactionItem("account", "key")>>,
                           <<StatusPath, StatusItem>>,
                           <<NftItemPath, NftItemItem>>,
                           <<AccountPath, AccountItem>> >>),
                  "toKey", "toAccount")
    [] path = "no-paths.json" -> Dict1("openapi", Str1("3.0.0"))

\* ------------------------------------------------------------------ state

VARIABLES
  args,            \* the command line: spec, base, concurrency
  api,             \* the live API the run meets
  pc,              \* the statement of main() that is next
  seeds,           \* the seed set
  endpoints,       \* the endpoint list, as the paths
  work_queue,      \* the pool's queue of work items not yet taken
  num_threads,     \* the pool's worker threads
  idle_semaphore,  \* the pool's count of workers that went idle
  future,          \* path -> the future of its probe
  results,         \* the collected results
  yielded,         \* the futures as_completed has yielded
  report,          \* the report written, None before
  rs_in,           \* the input of a resolver run
  rs_walk,         \* the walk state a resolver run ended with
  fn_in,           \* the input of a function applied on its own
  fn_out           \* what the function returned

\* ------------------------------------------------------------ the live API

DataOf(items) == Dict1("data", JList(items))

CadenceType(name) == JStr(<<"A", ".", "1654653399040a61", ".", name>>)

\* The answers to the harvesting calls of an API that has data of every kind.
SeedRoutes ==
  << <<Path(<<"flow", "v1", "account">>) \o ListQuery("1"),
       Answer(200, DataOf(<<Dict2("address", Str1("0x01"), "height", JInt(7))>>))>>,
     <<Path(<<"flow", "v1", "block">>) \o ListQuery("1"),
       Answer(200, DataOf(<<Dict1("height", JInt(9))>>))>>,
     <<Path(<<"flow", "v1", "transaction">>) \o ListQuery("1"),
       Answer(200, DataOf(<<Dict1("id", Str1("tx1"))>>))>>,
     <<Path(<<"flow", "v1", "contract">>) \o ListQuery("1"),
       Answer(200, DataOf(<<Dict1("identifier", CadenceType("Coin"))>>))>>,
     <<Path(<<"flow", "v1", "ft">>) \o ListQuery("5"),
       Answer(200, DataOf(<<Dict1("id", JInt(5)), Dict1("id", CadenceType("Idle")),
                            Dict1("id", CadenceType("FlowToken"))>>))>>,
     <<Path(<<"flow", "v1", "ft">>) \o <<"/">> \o CadenceType("Idle").v
         \o Path(<<"holding">>) \o ListQuery("1"),
       Answer(200, DataOf(<<>>))>>,
     <<Path(<<"flow", "v1", "ft">>) \o <<"/">> \o CadenceType("FlowToken").v
         \o Path(<<"holding">>) \o ListQuery("1"),
       Answer(200, DataOf(<<Dict1("address", Str1("0x02"))>>))>>,
     <<Path(<<"flow", "v1", "nft">>) \o ListQuery("5"),
       Answer(200, DataOf(<<Dict1("id", CadenceType("TopShot"))>>))>>,
     <<Path(<<"flow", "v1", "nft">>) \o <<"/">> \o CadenceType("TopShot").v
         \o Path(<<"holding">>) \o ListQuery("1"),
       Answer(200, DataOf(<<Dict1("owner", Str1("0x03"))>>))>>,
     <<Path(<<"flow", "v1", "evm", "transaction">>) \o ListQuery("1"),
       Answer(200, DataOf(<<Dict1("hash", Str1("0xabc"))>>))>>,
     <<Path(<<"flow", "v1", "evm", "token">>) \o ListQuery("1"),
       Answer(200, DataOf(<<Dict2("address", JStr(<<>>), "id", Str1("0xe1"))>>))>> >>

\* The answers to the probes of the endpoints, with the seeds of SeedRoutes.
ProbeRoutes(status) ==
  << <<StatusPath, status>>,
     <<Path(<<"flow", "v1", "transaction", "tx1">>),
       Answer(200, Dict2("payer", Str1("0x01"), "proposer", Str1("0x01")))>>,
     <<Path(<<"flow", "v1", "account", "0x03">>),
       Answer(200, Dict1("address", Str1("0x03")))>>,
     <<ContractPath \o <<"?", "limit", "=", "1", "&", "offset", "=", "0", "&", "kind", "=", "0">>,
       Answer(200, DataOf(<<>>))>> >>

\* What the listing of accounts answers: a 500, a body that is no JSON, an
\* empty list, an account whose address is no str, an account with an address.
AccountListings == {"error", "text", "empty", "nonstring", "listed"}

\* What the listing of tokens (of collections) and their holdings answer: a
\* 500; two tokens with no holding; a first holding whose first entry has no
\* str address, also when the second token's holding has one ("later"); a
\* first token with no holding and a second whose holding has an address.
HoldingListings == {"error", "none", "unaddressed", "later", "held"}

SeedInputs == [account : AccountListings, ft : HoldingListings, nft : HoldingListings]

\* The routes of a listing of kind ("ft" or "nft") and of the holdings of its
\* two entries a and b, whose holders are under key with the address addr.
HoldingRoutes(kind, a, b, key, addr, listing) ==
  LET list == Path(<<"flow", "v1", kind>>) \o ListQuery("5")
      holding(t) == Path(<<"flow", "v1", kind>>) \o <<"/">> \o CadenceType(t).v
                      \o Path(<<"holding">>) \o ListQuery("1")
      both == Answer(200, DataOf(<<Dict1("id", CadenceType(a)), Dict1("id", CadenceType(b))>>))
      held == Answer(200, DataOf(<<Dict1(key, Str1(addr))>>))
      bare == Answer(200, DataOf(<<Dict1(key, JInt(7))>>))
      empty == Answer(200, DataOf(<<>>))
  IN CASE listing = "error" -> << <<list, Answer(500, Dict1("error", Str1("internal")))>> >>
       [] listing = "none" -> << <<list, both>>, <<holding(a), empty>>, <<holding(b), empty>> >>
       [] listing = "unaddressed" ->
            << <<list, both>>, <<holding(a), bare>>, <<holding(b), empty>> >>
       [] listing = "later" -> << <<list, both>>, <<holding(a), bare>>, <<holding(b), held>> >>
       [] listing = "held" -> << <<list, both>>, <<holding(a), empty>>, <<holding(b), held>> >>

\* The answers of the API to the harvesting calls, for an input of SeedInputs.
HarvestRoutes(in) ==
  LET list == Path(<<"flow", "v1", "account">>) \o ListQuery("1") IN
  (CASE in.account = "error" -> << <<list, Answer(500, Dict1("error", Str1("internal")))>> >>
     [] in.account = "text" -> << <<list, TextAnswer(200, S("<html>"))>> >>
     [] in.account = "empty" -> << <<list, Answer(200, DataOf(<<>>))>> >>
     [] in.account = "nonstring" -> << <<list, Answer(200, DataOf(<<Dict1("address", JInt(1))>>))>> >>
     [] in.account = "listed" ->
          << <<list, Answer(200, DataOf(<<Dict1("address", Str1("0x01"))>>))>> >>)
  \o HoldingRoutes("ft", "Idle", "FlowToken", "address", "0x02", in.ft)
  \o HoldingRoutes("nft", "Quiet", "TopShot", "owner", "0x03", in.nft)

\* The APIs a run can meet.
ApiNames == {"healthy", "degraded", "flaky", "down"}

Api(name) ==
  CASE name = "healthy" ->
         [down |-> FALSE,
          routes |-> SeedRoutes \o ProbeRoutes(Answer(200, Dict1("ok", JBool(TRUE))))]
    [] name = "degraded" ->
         [down |-> FALSE,
          routes |-> << <<Path(<<"flow", "v1", "account">>) \o ListQuery("1"),
                          Answer(500, Dict1("error", Str1("internal")))>>,
                        <<Path(<<"flow", "v1", "ft">>) \o ListQuery("5"),
                          TextAnswer(200, S("<html>"))>>,
                        <<StatusPath, Answer(503, Dict1("error", Str1("maintenance")))>> >>]
    [] name = "flaky" ->
         [down |-> FALSE, routes |-> SeedRoutes \o ProbeRoutes(NoAnswer("timeout"))]
    [] name = "down" -> [down |-> TRUE, routes |-> <<>>]
    [] name = "harvest" -> [down |-> FALSE, routes |-> HarvestRoutes(fn_in)]

\* ---------------------------------------------------------------- the run

vars == <<args, api, pc, seeds, endpoints, work_queue, num_threads, idle_semaphore,
          future, results, yielded, report, rs_in, rs_walk,
                 fn_in, fn_out>>

run_vars == <<args, api, seeds, endpoints, work_queue, num_threads, idle_semaphore,
              future, results, yielded, report>>

\* The statements of main() in program order (lines 872-945); the eight
\* harvesting blocks of seed_values stand for its call at line 879.
MainOrder ==
  <<"load", "seed_account", "seed_block", "seed_transaction", "seed_contract",
    "seed_ft", "seed_nft", "seed_evm", "seed_evm_token", "endpoints", "submit",
    "collect", "shutdown", "sort", "write", "done">>

SeedStatements ==
  {"seed_account", "seed_block", "seed_transaction", "seed_contract", "seed_ft",
   "seed_nft", "seed_evm", "seed_evm_token"}

\* The statement after stmt in a given order.
Successor(order, stmt) == order[(CHOOSE i \in 1..Len(order) : order[i] = stmt) + 1]

\* An order with the pool filled before the seeds are harvested.
next_stmt_seed_late(stmt) ==
  Successor(<<"load", "endpoints", "submit", "seed_account", "seed_block",
              "seed_transaction", "seed_contract", "seed_ft", "seed_nft", "seed_evm",
              "seed_evm_token", "collect", "shutdown", "sort", "write", "done">>, stmt)

next_stmt(stmt) == Successor(MainOrder, stmt)

\* base = args.base.rstrip("/")
base == RStripSlash(args.base)

\* spec = load_json(args.spec)
SpecDocument == load_json(args.spec)

\* A pool with a worker for every endpoint, whatever the limit.
max_workers_per_endpoint(concurrency) == concurrency + Len(endpoints)

\* max_workers=max(1, args.concurrency)
max_workers(concurrency) == IF concurrency > 1 THEN concurrency ELSE 1

\* The endpoint list of lines 881-887 with every path item taken, whatever its
\* methods.
RECURSIVE get_endpoints_any_method(_)
get_endpoints_any_method(items) ==
  IF items = <<>> THEN <<>>
  ELSE IF Head(items)[2].t = "dict"
  THEN <<Head(items)[1]>> \o get_endpoints_any_method(Tail(items))
  ELSE get_endpoints_any_method(Tail(items))

\* The endpoint list of lines 881-887: the paths whose item has a "get" dict.
RECURSIVE get_endpoints(_)
get_endpoints(items) ==
  IF items = <<>> THEN <<>>
  ELSE IF Head(items)[2].t = "dict" /\ Get(Head(items)[2], S("get")).t = "dict"
  THEN <<Head(items)[1]>> \o get_endpoints(Tail(items))
  ELSE get_endpoints(Tail(items))

\* op of the tuple (path, op) of the endpoint list.
OpOf(path) == Get(Get(Get(SpecDocument, S("paths")), path), S("get"))

\* The place of r in a list sorted by path: after every item that is not greater.
RECURSIVE insert_by_path(_, _)
insert_by_path(sorted, r) ==
  IF sorted = <<>> THEN <<r>>
  ELSE IF StrLess(r.path, Head(sorted).path) THEN <<r>> \o sorted
  ELSE <<Head(sorted)>> \o insert_by_path(Tail(sorted), r)

RECURSIVE sort_from(_, _)
sort_from(sorted, rest) ==
  IF rest = <<>> THEN sorted ELSE sort_from(insert_by_path(sorted, Head(rest)), Tail(rest))

\* The results left in the order of collection.
sort_results_unsorted(rs) == rs

\* results.sort(key=lambda r: r.path): a stable sort.
sort_results(rs) == sort_from(<<>>, rs)

\* Executor.shutdown(wait=True) returns: every work item was taken and run.
shutdown_no_wait == TRUE

shutdown_returns ==
  work_queue = <<>> /\ \A e \in DOMAIN future : future[e].state = "FINISHED"

\* A resolver run is not part of a run of main().
NoResolve == rs_in = <<>> /\ rs_walk = EmptyWalk

\* No function is applied on its own.
NoApply == fn_in = <<>> /\ fn_out = <<>>

\* The state main() starts in.
Init ==
  /\ args \in [spec : SpecFiles, base : {Base}, concurrency : 0..MaxConcurrency]
  /\ api \in ApiNames
  /\ pc = "load"
  /\ seeds = NoSeeds
  /\ endpoints = <<>>
  /\ work_queue = <<>>
  /\ num_threads = 0
  /\ idle_semaphore = 0
  /\ future = <<>>
  /\ results = <<>>
  /\ yielded = {}
  /\ report = JNull
  /\ NoResolve
  /\ NoApply

\* Lines 872-877: the document is loaded; SystemExit when it has no paths dict.
Load ==
  /\ pc = "load"
  /\ pc' = IF Get(SpecDocument, S("paths")).t # "dict" THEN "exit" ELSE next_stmt("load")
  /\ UNCHANGED <<run_vars, rs_in, rs_walk,
                 fn_in, fn_out>>

\* A harvesting block of seed_values has run with the outcome r: the seeds it
\* leaves, or its exception, which nothing in main() catches.
Harvest(stmt, r) ==
  /\ pc = stmt
  /\ IF r.exc # NoExc
     THEN pc' = "aborted" /\ seeds' = seeds
     ELSE pc' = next_stmt(stmt) /\ seeds' = r.seeds
  /\ UNCHANGED <<args, api, endpoints, work_queue, num_threads, idle_semaphore,
                 future, results, yielded, report, rs_in, rs_walk,
                 fn_in, fn_out>>

SeedAccount == Harvest("seed_account", seed_account(Api(api), base, seeds))
SeedBlock == Harvest("seed_block", seed_block(Api(api), base, seeds))
SeedTransaction == Harvest("seed_transaction", seed_transaction(Api(api), base, seeds))
SeedContract == Harvest("seed_contract", seed_contract(Api(api), base, seeds))
SeedFt == Harvest("seed_ft", seed_ft(Api(api), base, seeds))
SeedNft == Harvest("seed_nft", seed_nft(Api(api), base, seeds))
SeedEvm == Harvest("seed_evm", seed_evm(Api(api), base, seeds))
SeedEvmToken == Harvest("seed_evm_token", seed_evm_token(Api(api), base, seeds))

\* Lines 881-887.
BuildEndpoints ==
  /\ pc = "endpoints"
  /\ endpoints' = get_endpoints(Get(SpecDocument, S("paths")).v)
  /\ pc' = next_stmt("endpoints")
  /\ UNCHANGED <<args, api, seeds, work_queue, num_threads, idle_semaphore, future,
                 results, yielded, report, rs_in, rs_walk,
                 fn_in, fn_out>>

\* A future as submit() makes it.
NewFuture ==
  [state |-> "PENDING", skip |-> FALSE, url |-> <<>>, result |-> JNull,
   exception |-> NoExc, seeds_seen |-> NoSeeds, runs |-> 0, http_calls |-> 0]

\* Lines 891-894: the next pool.submit of the comprehension. The pool queues the
\* work item and starts a worker thread unless one is idle or max_workers are
\* running. After the last one main() goes on.
Submit ==
  /\ pc = "submit"
  /\ LET n == Cardinality(DOMAIN future) IN
     IF n < Len(endpoints)
     THEN LET e == endpoints[n + 1] IN
          /\ future' = [f \in DOMAIN future \cup {e} |->
                          IF f = e THEN NewFuture ELSE future[f]]
          /\ work_queue' = Append(work_queue, e)
          /\ IF idle_semaphore > 0
             THEN idle_semaphore' = idle_semaphore - 1 /\ num_threads' = num_threads
             ELSE /\ idle_semaphore' = idle_semaphore
                  /\ num_threads' = IF num_threads < max_workers(args.concurrency)
                                    THEN num_threads + 1 ELSE num_threads
          /\ pc' = pc
     ELSE /\ pc' = next_stmt("submit")
          /\ UNCHANGED <<future, work_queue, idle_semaphore, num_threads>>
  /\ UNCHANGED <<args, api, seeds, endpoints, results, yielded, report, rs_in, rs_walk,
                 fn_in, fn_out>>

\* The probes that worker threads are running.
Running == {e \in DOMAIN future : future[e].state = "RUNNING"}

\* A worker thread that waits on the queue takes the oldest work item and runs
\* audit_endpoint up to the GET it issues (lines 622-655), reading the seeds.
Dispatch ==
  /\ work_queue # <<>>
  /\ Cardinality(Running) < num_threads
  /\ LET e == Head(work_queue)
         prep == audit_prepare(base, e, OpOf(e), seeds)
     IN future' = [future EXCEPT ![e] =
                     [@ EXCEPT !.state = "RUNNING", !.skip = prep.skip, !.url = prep.url,
                               !.result = prep.result, !.seeds_seen = seeds,
                               !.runs = @ + 1,
                               !.http_calls = IF prep.skip THEN @ ELSE @ + 1]]
  /\ work_queue' = Tail(work_queue)
  /\ UNCHANGED <<args, api, pc, seeds, endpoints, num_threads, idle_semaphore, results,
                 yielded, report, rs_in, rs_walk,
                 fn_in, fn_out>>

\* The call of a running probe returns or raises (lines 655-747, or the return
\* of a skip): its future is finished and its worker goes idle.
Complete(e) ==
  /\ future[e].state = "RUNNING"
  /\ LET f == future[e]
         out == IF f.skip THEN [exc |-> NoExc, result |-> f.result]
                ELSE audit_analyse(SpecDocument, e, OpOf(e), f.url, http_json(Api(api), f.url))
     IN future' = [future EXCEPT ![e] =
                     [@ EXCEPT !.state = "FINISHED", !.result = out.result,
                               !.exception = out.exc]]
  /\ idle_semaphore' = idle_semaphore + 1
  /\ UNCHANGED <<args, api, pc, seeds, endpoints, work_queue, num_threads, results,
                 yielded, report, rs_in, rs_walk,
                 fn_in, fn_out>>

\* Lines 895-896: as_completed yields a finished future and fut.result() returns
\* its result or raises its exception out of the with block; the loop ends when
\* every future was yielded.
Collect ==
  /\ pc = "collect"
  /\ IF yielded = DOMAIN future
     THEN pc' = next_stmt("collect") /\ UNCHANGED <<yielded, results>>
     ELSE \E e \in DOMAIN future \ yielded :
            /\ future[e].state = "FINISHED"
            /\ yielded' = yielded \cup {e}
            /\ IF future[e].exception # NoExc
               THEN pc' = "unwind" /\ results' = results
               ELSE pc' = pc /\ results' = Append(results, future[e].result)
  /\ UNCHANGED <<args, api, seeds, endpoints, work_queue, num_threads, idle_semaphore,
                 future, report, rs_in, rs_walk,
                 fn_in, fn_out>>

\* The end of the with block (line 891) after the loop: shutdown(wait=True).
Shutdown ==
  /\ pc = "shutdown"
  /\ shutdown_returns
  /\ pc' = next_stmt("shutdown")
  /\ UNCHANGED <<run_vars, rs_in, rs_walk,
                 fn_in, fn_out>>

\* The end of the with block with an exception in flight: shutdown(wait=True),
\* then the exception leaves main() and the process ends with no report.
Unwind ==
  /\ pc = "unwind"
  /\ shutdown_returns
  /\ pc' = "aborted"
  /\ UNCHANGED <<run_vars, rs_in, rs_walk,
                 fn_in, fn_out>>

\* Line 899.
Sort ==
  /\ pc = "sort"
  /\ results' = sort_results(results)
  /\ pc' = next_stmt("sort")
  /\ UNCHANGED <<args, api, seeds, endpoints, work_queue, num_threads, idle_semaphore,
                 future, yielded, report, rs_in, rs_walk,
                 fn_in, fn_out>>

\* Lines 901-945: the report is built and written (its timestamp is left out).
Write ==
  /\ pc = "write"
  /\ report' = [base |-> base, spec |-> args.spec, seeds |-> seeds, endpoints |-> results]
  /\ pc' = next_stmt("write")
  /\ UNCHANGED <<args, api, seeds, endpoints, work_queue, num_threads, idle_semaphore,
                 future, results, yielded, rs_in, rs_walk,
                 fn_in, fn_out>>

Next ==
  \/ Load
  \/ SeedAccount \/ SeedBlock \/ SeedTransaction \/ SeedContract
  \/ SeedFt \/ SeedNft \/ SeedEvm \/ SeedEvmToken
  \/ BuildEndpoints
  \/ Submit
  \/ Dispatch
  \/ \E e \in DOMAIN future : Complete(e)
  \/ Collect
  \/ Shutdown
  \/ Unwind
  \/ Sort
  \/ Write

Spec == Init /\ [][Next]_vars

\* The statements of main() that create the endpoint list, hand work to the
\* pool, take results from it, leave the with block and write the report.
MainControl == BuildEndpoints \/ Submit \/ Collect \/ Shutdown \/ Unwind \/ Write

\* The steps that run the program's functions and its HTTP calls: main()
\* loading, harvesting and sorting, and the workers running audit_endpoint.
Computing ==
  \/ Load
  \/ SeedAccount \/ SeedBlock \/ SeedTransaction \/ SeedContract
  \/ SeedFt \/ SeedNft \/ SeedEvm \/ SeedEvmToken
  \/ Sort
  \/ Dispatch
  \/ \E e \in DOMAIN future : Complete(e)

\* The guards of the actions of Computing, that is ENABLED <<Computing>>_vars.
CanCompute ==
  \/ pc \in {"load", "sort"} \cup SeedStatements
  \/ work_queue # <<>> /\ Cardinality(Running) < num_threads
  \/ Running # {}

\* Weak fairness of main()'s control statements and of the computing steps (for
\* these WF_vars(Computing) is written out, with CanCompute for its ENABLED):
\* the operating system schedules a thread that can run, a worker that waits on
\* the queue is woken when an item is put, main() proceeds once a future is
\* done, and every GET returns or times out (timeout=timeout, line 47).
Fairness ==
  /\ WF_vars(MainControl)
  /\ []<>(~CanCompute) \/ []<><<Computing>>_vars

FairSpec == Spec /\ Fairness

\* ------------------------------------------------- the resolver on its own

\* The documents and response schemas a resolver run is given: every pair of
\* property schemas over every pair of component bodies.
ResolverInputs ==
  [payer : DOMAIN PropertySchemas, proposer : DOMAIN PropertySchemas,
   account : DOMAIN AccountBodies, key : DOMAIN KeyBodies]

InitResolve ==
  /\ rs_in \in ResolverInputs
  /\ rs_walk = EmptyWalk
  /\ NoApply
  /\ pc = "resolve"
  /\ args = [spec |-> "openapi-v2.json", base |-> Base, concurrency |-> 1]
  /\ api = "healthy"
  /\ seeds = NoSeeds
  /\ endpoints = <<>>
  /\ work_queue = <<>>
  /\ num_threads = 0
  /\ idle_semaphore = 0
  /\ future = <<>>
  /\ results = <<>>
  /\ yielded = {}
  /\ report = JNull

\* The resolution of audit_endpoint (lines 657-662) on the input.
Resolve ==
  /\ pc = "resolve"
  /\ rs_walk' = expected_of(Document(JDict(<<>>), rs_in.account, rs_in.key),
                            ResponseSchema(rs_in.payer, rs_in.proposer))
  /\ pc' = "resolved"
  /\ UNCHANGED <<run_vars, rs_in, fn_in, fn_out>>

NextResolve == Resolve

SpecResolve == InitResolve /\ [][NextResolve]_vars

\* ------------------------------------------- the classification on its own

\* The run's variables at rest, as a function applied on its own leaves them.
AtRest ==
  /\ args = [spec |-> "openapi-v2.json", base |-> Base, concurrency |-> 1]
  /\ api = "healthy"
  /\ seeds = NoSeeds
  /\ endpoints = <<>>
  /\ work_queue = <<>>
  /\ num_threads = 0
  /\ idle_semaphore = 0
  /\ future = <<>>
  /\ results = <<>>
  /\ yielded = {}
  /\ report = JNull
  /\ NoResolve

\* The values the field of a payload can hold.
SampleValues ==
  [null |-> JNull,
   bool |-> JBool(TRUE),
   int |-> JInt(7),
   float |-> JFloat(15),
   str_empty |-> JStr(<<>>),
   str_null |-> Str1("null"),
   cadence2 |-> JStr(<<"A", ".", "1654653399040a61", ".", "FlowToken">>),
   cadence3 |-> JStr(<<"A", ".", "1654653399040a61", ".", "FlowToken", ".", "Vault">>),
   escaped |-> JStr(<<"A", "\\", ".", "1654653399040a61", "\\", ".", "FlowToken">>),
   bare |-> Str1("FlowToken"),
   address |-> JStr(<<"0x", "1654653399040a61">>),
   ts_ok |-> JStr(<<"2024-01-01T00:00:00", "Z">>),
   ts_bad |-> Str1("2024-13-01"),
   list_empty |-> JList(<<>>),
   list |-> JList(<<JInt(1)>>),
   dict |-> JDict(<<>>)]

StringSamples == {v \in DOMAIN SampleValues : SampleValues[v].t = "str"}

DeclaredTypes == {"string", "integer", "number", "boolean", "array", "object", "unknown"}

\* Where the field sits: in the root object, in the items of an array, in the
\* items of an array inside the items of an array, or in the items of a root
\* array; and which of the arrays of the payload is empty.
Wraps ==
  {"root", "items", "items_empty", "nested", "nested_empty", "outer_empty",
   "rootarray", "rootarray_empty"}

\* A classification is given a field (its name, declared type and value, or
\* "absent"), the place of the object that holds it, and whether that object
\* permits additional properties (no, true, or a sub-schema).
ClassifyInputs ==
  [name : {"token", "address", "createdAt", "note"},
   declared : DeclaredTypes,
   value : DOMAIN SampleValues \cup {"absent"},
   wrap : Wraps,
   open : {"closed", "open", "schema"}]

\* The schema of the object that holds the field: the field, a property meta
\* that is an open object, and the additionalProperties clause.
HolderSchema(in) ==
  LET leaf == IF in.name = "createdAt"
              THEN Dict2("type", Str1(in.declared), "format", Str1("date-time"))
              ELSE Leaf(in.declared)
      props == Dict2(in.name, leaf,
                     "meta", Dict2("type", Str1("object"),
                                   "additionalProperties", JBool(TRUE)))
  IN CASE in.open = "closed" -> Object(props)
       [] in.open = "open" ->
            Dict3("type", Str1("object"), "properties", props,
                  "additionalProperties", JBool(TRUE))
       [] in.open = "schema" ->
            Dict3("type", Str1("object"), "properties", props,
                  "additionalProperties", Leaf("string"))

\* The object of the payload: the field unless absent, meta, and the undeclared
\* keys metadata and _meta.
HolderPayload(in) ==
  JDict((IF in.value = "absent" THEN <<>> ELSE << <<S(in.name), SampleValues[in.value]>> >>)
        \o << <<S("meta"), Dict1("k", JInt(1))>>,
              <<<<"meta", "data">>, Dict1("z", JInt(1))>>,
              <<S("_meta"), Dict1("q", JInt(2))>> >>)

ClassifySchema(in) ==
  CASE in.wrap = "root" -> HolderSchema(in)
    [] in.wrap \in {"items", "items_empty"} ->
         Object(Dict1("items", ArrayOf(HolderSchema(in))))
    [] in.wrap \in {"nested", "nested_empty", "outer_empty"} ->
         Object(Dict1("data", ArrayOf(Object(Dict1("items", ArrayOf(HolderSchema(in)))))))
    [] in.wrap \in {"rootarray", "rootarray_empty"} -> ArrayOf(HolderSchema(in))

ClassifyPayload(in) ==
  CASE in.wrap = "root" -> HolderPayload(in)
    [] in.wrap = "items" -> Dict1("items", JList(<<HolderPayload(in)>>))
    [] in.wrap = "items_empty" -> Dict1("items", JList(<<>>))
    [] in.wrap = "nested" ->
         Dict1("data", JList(<<Dict1("items", JList(<<HolderPayload(in)>>))>>))
    [] in.wrap = "nested_empty" -> Dict1("data", JList(<<Dict1("items", JList(<<>>))>>))
    [] in.wrap = "outer_empty" -> Dict1("data", JList(<<>>))
    [] in.wrap = "rootarray" -> JList(<<HolderPayload(in), JDict(<<>>)>>)
    [] in.wrap = "rootarray_empty" -> JList(<<>>)

\* The path of the object that holds the field ("" for the root object).
HolderPath(in) ==
  CASE in.wrap = "root" -> <<>>
    [] in.wrap \in {"items", "items_empty"} -> <<"items", "[]">>
    [] in.wrap \in {"nested", "nested_empty", "outer_empty"} ->
         <<"data", "[]", ".", "items", "[]">>
    [] in.wrap \in {"rootarray", "rootarray_empty"} -> <<"[]">>

\* The path of a key of the object that holds the field.
KeyPath(in, key) ==
  IF HolderPath(in) = <<>> THEN key ELSE HolderPath(in) \o <<".">> \o key

\* audit_endpoint from the answer on, for a GET of /status that answers 200
\* with the payload.
Analysis(in) ==
  audit_analyse(JDict(<<>>), StatusPath, Operation(<<>>, ClassifySchema(in)),
                RStripSlash(Base) \o StatusPath,
                [exc |-> NoExc, status |-> 200, payload |-> ClassifyPayload(in), ms |-> 5])

InitClassify ==
  /\ fn_in \in ClassifyInputs
  /\ fn_out = <<>>
  /\ pc = "classify"
  /\ AtRest

Classify ==
  /\ pc = "classify"
  /\ fn_out' = Analysis(fn_in).result
  /\ pc' = "classified"
  /\ UNCHANGED <<run_vars, rs_in, rs_walk, fn_in>>

NextClassify == Classify

SpecClassify == InitClassify /\ [][NextClassify]_vars

\* --------------------------------------------------- one probe on its own

\* Path templates with, for each {name} segment in order, the name and where
\* its value comes from: a seed, "fixed" for a fixed default, "none" for a
\* name that has no value.
Templates ==
  [status |-> [path |-> StatusPath, params |-> <<>>],
   account |-> [path |-> AccountPath, params |-> << <<"address", "address">> >>],
   transaction |-> [path |-> TransactionPath, params |-> << <<"id", "tx_id">> >>],
   block_tx |->
     [path |-> BlockPath \o <<"/", "{", "height", "}">> \o Path(<<"transaction">>)
                 \o <<"/", "{", "id", "}">>,
      params |-> << <<"height", "height">>, <<"id", "tx_id">> >>],
   nft_item |-> [path |-> NftItemPath,
                 params |-> << <<"nft_type", "nft_type">>, <<"id", "nft_item_id">> >>],
   contract_item |->
     [path |-> ContractPath \o <<"/", "{", "identifier", "}", "/", "{", "id", "}">>,
      params |-> << <<"identifier", "identifier">>, <<"id", "identifier">> >>],
   evm_token |->
     [path |-> Path(<<"flow", "v1", "evm", "token">>) \o <<"/", "{", "address", "}">>,
      params |-> << <<"address", "evm_token_address">> >>],
   epoch |-> [path |-> Path(<<"flow", "v1", "epoch">>) \o <<"/", "{", "epoch", "}">>,
              params |-> << <<"epoch", "fixed">> >>],
   owner |-> [path |-> Path(<<"flow", "v1", "account">>) \o <<"/", "{", "owner", "}">>,
              params |-> << <<"owner", "none">> >>]]

\* The seeds of a run that found a value of every kind.
AllSeeds ==
  [address |-> Str1("0x01"), height |-> Str1("9"), tx_id |-> Str1("tx1"),
   token |-> CadenceType("FlowToken"), nft_type |-> CadenceType("TopShot"),
   nft_item_id |-> Str1("42"), identifier |-> CadenceType("Coin"),
   evm_hash |-> Str1("0xabc"), evm_token_address |-> Str1("0xe1")]

\* The seed sets: none, all, all but one, and all with an empty value or with a
\* value that holds braces.
SeedSets ==
  {NoSeeds, AllSeeds,
   [AllSeeds EXCEPT !.evm_token_address = JStr(<<>>)],
   [AllSeeds EXCEPT !.address = JStr(<<"{", "id", "}">>)]}
  \cup {[AllSeeds EXCEPT ![k] = JNull] : k \in DOMAIN AllSeeds}

\* The schemas a declared parameter can have.
ParamSchemas ==
  [integer |-> Leaf("integer"),
   default |-> Dict2("type", Str1("integer"), "default", JInt(5)),
   enum |-> Dict2("type", Str1("string"), "enum", JList(<<Str1("asc"), Str1("desc")>>)),
   enum_empty |-> Dict1("enum", JList(<<>>))]

\* The declarations of a parameter: where it goes ("none": no "in" key), its
\* name ("nonstring": a name that is no str), whether it is required, and its
\* schema ("none": no schema).
ParamDecls ==
  [in : {"query", "path", "none"},
   name : {"limit", "fromBlock", "from", "events", "cursor", "id", "nonstring"},
   required : BOOLEAN,
   schema : DOMAIN ParamSchemas \cup {"none"}]

ParamJson(d) ==
  JDict((IF d.in = "none" THEN <<>> ELSE << <<S("in"), Str1(d.in)>> >>)
        \o << <<S("name"), IF d.name = "nonstring" THEN JInt(3) ELSE Str1(d.name)>>,
              <<S("required"), JBool(d.required)>> >>
        \o (IF d.schema = "none" THEN <<>>
            ELSE << <<S("schema"), ParamSchemas[d.schema]>> >>))

ProbeInputs == [template : DOMAIN Templates, seeds : SeedSets, param : ParamDecls]

\* The operation of the endpoint that is probed: the declared parameter, then
\* an optional offset.
ProbeOperation(in) ==
  Operation(<<ParamJson(in.param), QueryParameter("offset", FALSE, Leaf("integer"))>>,
            Object(Dict1("ok", Leaf("boolean"))))

InitProbe ==
  /\ fn_in \in ProbeInputs
  /\ fn_out = <<>>
  /\ pc = "prepare"
  /\ AtRest

\* audit_endpoint up to the URL: the skip result, or the URL of the GET.
Prepare ==
  /\ pc = "prepare"
  /\ LET prep == audit_prepare(Base, Templates[fn_in.template].path, ProbeOperation(fn_in),
                               fn_in.seeds)
     IN IF prep.skip
        THEN /\ fn_out' = [http_calls |-> 0, url |-> JNull, result |-> prep.result]
             /\ pc' = "skipped"
        ELSE /\ fn_out' = [http_calls |-> 0, url |-> JStr(prep.url), result |-> JNull]
             /\ pc' = "get"
  /\ UNCHANGED <<run_vars, rs_in, rs_walk, fn_in>>

\* Line 655 and what follows: the one GET and the analysis of its answer.
ProbeGet ==
  /\ pc = "get"
  /\ fn_out' = [http_calls |-> fn_out.http_calls + 1, url |-> fn_out.url,
                result |-> audit_analyse(JDict(<<>>), Templates[fn_in.template].path,
                                         ProbeOperation(fn_in), fn_out.url.v,
                                         http_json(Api(api), fn_out.url.v)).result]
  /\ pc' = "probed"
  /\ UNCHANGED <<run_vars, rs_in, rs_walk, fn_in>>

NextProbe == Prepare \/ ProbeGet

SpecProbe == InitProbe /\ [][NextProbe]_vars

\* ------------------------------------------------------ seeding on its own

\* seed_values against an API whose listings are those of the input.
InitSeed ==
  /\ fn_in \in SeedInputs
  /\ fn_out = <<>>
  /\ args = [spec |-> "openapi-v2.json", base |-> Base, concurrency |-> 1]
  /\ api = "harvest"
  /\ pc = "seed_account"
  /\ seeds = NoSeeds
  /\ endpoints = <<>>
  /\ work_queue = <<>>
  /\ num_threads = 0
  /\ idle_semaphore = 0
  /\ future = <<>>
  /\ results = <<>>
  /\ yielded = {}
  /\ report = JNull
  /\ NoResolve

NextSeed ==
  \/ SeedAccount \/ SeedBlock \/ SeedTransaction \/ SeedContract
  \/ SeedFt \/ SeedNft \/ SeedEvm \/ SeedEvmToken

SpecSeed == InitSeed /\ [][NextSeed]_vars

\* ---------------------------------- the resolver on schemas without $ref

\* A plain schema is given by the required lists of its four objects: the
\* root (id, owner, items), owner (id, key), owner.key (index) and the items
\* of items (id, note).
PlainInputs ==
  [kind : {"plain"},
   root : SUBSET {"id", "owner", "items"},
   owner : SUBSET {"id", "key"},
   key : SUBSET {"index"},
   item : SUBSET {"id", "note"}]

\* A branch of an allOf describes the field id: its type ("none": no type),
\* whether the branch requires it, its format and its description ("none":
\* absent, "empty": the empty string).
Branches ==
  [type : {"none", "string", "integer"},
   required : BOOLEAN,
   format : {"none", "empty", "date-time", "uuid"},
   description : {"none", "a", "b"}]

LastBranches ==
  {[type |-> "none", required |-> FALSE, format |-> "none", description |-> "none"],
   [type |-> "integer", required |-> FALSE, format |-> "uuid", description |-> "b"],
   [type |-> "string", required |-> TRUE, format |-> "empty", description |-> "a"]}

MergeInputs == [kind : {"merge"}, first : Branches, second : Branches, third : LastBranches]

ShapeInputs == PlainInputs \cup MergeInputs

\* A required list: the names of order that are in names, after an entry that
\* is no str and the name of no property.
RequiredList(order, names) ==
  JList(<<JInt(1), Str1("ghost")>>
        \o [i \in 1..Len(SelectSeq(order, LAMBDA n : n \in names)) |->
              Str1(SelectSeq(order, LAMBDA n : n \in names)[i])])

PlainSchema(in) ==
  LET key == Dict3("type", Str1("object"),
                   "properties", Dict1("index", Leaf("integer")),
                   "required", RequiredList(<<"index">>, in.key))
      owner == Dict3("type", Str1("object"),
                     "properties", Dict2("id", Leaf("string"), "key", key),
                     "required", RequiredList(<<"key", "id">>, in.owner))
      item == Dict3("type", Str1("object"),
                    "properties", Dict2("id", Leaf("integer"), "note", Leaf("string")),
                    "required", RequiredList(<<"id", "note">>, in.item))
  IN Dict3("type", Str1("object"),
           "properties", Dict3("id", Leaf("string"), "owner", owner, "items", ArrayOf(item)),
           "required", RequiredList(<<"items", "id", "owner">>, in.root))

BranchSchema(b) ==
  LET text(v) == IF v = "empty" THEN JStr(<<>>) ELSE Str1(v)
      field == JDict((IF b.type = "none" THEN <<>> ELSE << <<S("type"), Str1(b.type)>> >>)
                     \o (IF b.format = "none" THEN <<>>
                         ELSE << <<S("format"), text(b.format)>> >>)
                     \o (IF b.description = "none" THEN <<>>
                         ELSE << <<S("description"), text(b.description)>> >>))
  IN Dict3("type", Str1("object"), "properties", Dict1("id", field),
           "required", JList(IF b.required THEN <<Str1("id")>> ELSE <<>>))

MergeSchema(in) ==
  Dict1("allOf", JList(<<BranchSchema(in.first), BranchSchema(in.second),
                         BranchSchema(in.third)>>))

ShapeSchema(in) == IF in.kind = "plain" THEN PlainSchema(in) ELSE MergeSchema(in)

InitShape ==
  /\ fn_in \in ShapeInputs
  /\ fn_out = <<>>
  /\ pc = "shape"
  /\ AtRest

\* Lines 658-660: the expected fields of the schema.
ResolveShape ==
  /\ pc = "shape"
  /\ fn_out' = expected_of(JDict(<<>>), ShapeSchema(fn_in))
  /\ pc' = "shaped"
  /\ UNCHANGED <<run_vars, rs_in, rs_walk, fn_in>>

NextShape == ResolveShape

SpecShape == InitShape /\ [][NextShape]_vars

\* ------------------------------------------------------------- properties

\* The paths of the document that have a GET operation.
GetPaths ==
  LET paths == Get(SpecDocument, S("paths")) IN
  IF paths.t # "dict" THEN {}
  ELSE {paths.v[i][1] : i \in {j \in 1..Len(paths.v) :
                                 Get(paths.v[j][2], S("get")).t = "dict"}}

\* The probes whose call raised.
Raised == {e \in DOMAIN future : future[e].exception # NoExc}

\* The probes whose GET met a connection failure or a timeout.
TransportFailed == {e \in DOMAIN future : future[e].exception \in {"URLError", "timeout"}}

\* The probes whose response schema holds a reference that does not resolve.
ResolutionFailed == {e \in DOMAIN future : future[e].exception \in {"KeyError", "ValueError"}}

\* The report has an entry for every GET endpoint.
ReportCoversEndpoints ==
  /\ report # JNull
  /\ \A e \in GetPaths : \E i \in 1..Len(report.endpoints) : report.endpoints[i].path = e

\* C1: a probe that raises an unexpected exception does not abort the run: the
\* run goes on to its report, which has an entry for every endpoint, the
\* failing one included.
C1_FailureIsolation ==
  /\ Raised # {} => pc \notin {"unwind", "aborted"}
  /\ pc = "done" => ReportCoversEndpoints

\* C2: a probe whose GET fails with a connection failure or a timeout is an
\* outcome of that endpoint: the run is not aborted and the report has an entry
\* for every endpoint.
C2_TransportErrorIsOutcome ==
  /\ (TransportFailed # {} /\ Raised = TransportFailed) => pc \notin {"unwind", "aborted"}
  /\ (pc = "done" /\ TransportFailed # {}) => ReportCoversEndpoints

\* C3: a reference of a response schema that cannot be found, or is not local,
\* fails that expansion only: the run is not aborted and still reports the
\* other endpoints.
C3_ResolutionErrorIsLocal ==
  /\ (ResolutionFailed # {} /\ Raised = ResolutionFailed) => pc \notin {"unwind", "aborted"}
  /\ (pc = "done" /\ ResolutionFailed # {}) =>
       \A e \in GetPaths \ ResolutionFailed :
         \E i \in 1..Len(report.endpoints) : report.endpoints[i].path = e

\* C4: seeding strictly precedes probing: once a probe is dispatched no
\* harvesting call is left to run, and the seed set every probe read is the
\* seed set of every later state, the final one included.
C4_SeedingPrecedesProbing ==
  \A e \in DOMAIN future :
    future[e].state # "PENDING" =>
      /\ pc \notin SeedStatements \cup {"load"}
      /\ future[e].seeds_seen = seeds

C4_Witness ==
  /\ pc = "done"
  /\ \E e \in DOMAIN future :
       /\ future[e].seeds_seen.address = Str1("0x03")
       /\ future[e].http_calls = 1

\* The i-th GET path of the document in ascending order.
NthPath(i) ==
  CHOOSE p \in GetPaths : Cardinality({q \in GetPaths : StrLess(q, p)}) = i - 1

\* The list of results of the endpoints probed one after the other in ascending
\* order of path, with the seeds of the run.
SequentialResults ==
  [i \in 1..Cardinality(GetPaths) |->
     audit_endpoint(SpecDocument, base, NthPath(i), OpOf(NthPath(i)), seeds, Api(api)).result]

\* C5: the final report does not depend on scheduling: whatever the concurrency
\* limit and the order in which the probes ran and completed, the report's list
\* of endpoint results is the list of the results in ascending order of path.
C5_ReportIndependentOfScheduling ==
  pc = "done" => report.endpoints = SequentialResults

C5_Witness ==
  /\ pc = "done"
  /\ args.concurrency = 3
  /\ Len(report.endpoints) = 3
  /\ \E i \in 1..3 : report.endpoints[i].skip_reason # JNull
  /\ \E i \in 1..3 : report.endpoints[i].http_status = JInt(503)

\* C6: at every moment the number of probes running is at most
\* max(1, concurrency).
C6_BoundedFanOut ==
  Cardinality(Running) <= (IF args.concurrency > 1 THEN args.concurrency ELSE 1)

C6_Witness ==
  /\ args.concurrency = 2
  /\ Cardinality(Running) = 2
  /\ work_queue # <<>>

Ended == pc \in {"done", "aborted", "exit"}

\* The probes dispatched or waiting to be, and not yet completed or failed.
InFlight == {e \in DOMAIN future : future[e].state # "FINISHED"}

\* C8: given that every dispatched probe completes or fails, the run ends, and
\* it does not aggregate, write its report or end while a probe is in flight.
C8_RunTermination ==
  /\ <>Ended
  /\ [](pc \in {"sort", "write", "done", "aborted"} => InFlight = {})

C8_Witness ==
  /\ pc = "aborted"
  /\ Cardinality(DOMAIN future) = 3
  /\ InFlight = {}
  /\ Cardinality(yielded) = 1

\* The input of a resolver run has no reference that cannot be resolved.
Resolvable == {rs_in.payer, rs_in.proposer} \cap {"missing", "remote"} = {}

\* C9: the resolution of a finite document ends, reference cycles included: it
\* never exhausts the stack, and a document whose references all resolve gets
\* a finite set of expected fields.
C9_CycleTermination ==
  pc = "resolved" =>
    /\ rs_walk.exc # "RecursionError"
    /\ Resolvable => rs_walk.exc = NoExc /\ IsFiniteSet(DOMAIN rs_walk.out)

C9_Witness ==
  /\ pc = "resolved"
  /\ rs_in = [payer |-> "account", proposer |-> "string", account |-> "toKey", key |-> "toAccount"]
  /\ rs_walk.exc = NoExc
  /\ <<"payer", ".", "key", ".", "index">> \in DOMAIN rs_walk.out

\* C10: two sibling properties that reference the same schema are both
\* expanded: when payer and proposer reference Account, each of the two is an
\* expected field, and every field under payer is a field under proposer too.
C10_SiblingReexpansion ==
  (pc = "resolved" /\ rs_in.payer = "account" /\ rs_in.proposer = "account"
     /\ rs_in.account = "plain") =>
    /\ {S("payer"), S("proposer")} \subseteq DOMAIN rs_walk.out
    /\ \A p \in DOMAIN rs_walk.out :
         Head(p) = "payer" => (<<"proposer">> \o Tail(p)) \in DOMAIN rs_walk.out

\* The field results of the analysis that was applied.
FieldResults == {fn_out.field_results[i] : i \in 1..Len(fn_out.field_results)}

\* The array lengths recorded from the payload that was analysed.
ArrayLengths ==
  collect_observed_fields(ClassifyPayload(fn_in), <<>>, Observed(<<>>, <<>>)).array_lengths

\* The path of the nearest array that encloses a field path: the path up to
\* its last "[]", or null when the path goes through no array.
NearestArray(p) ==
  LET marks == {i \in 1..Len(p) : p[i] = "[]"} IN
  IF marks = {} THEN JNull
  ELSE JStr(SubSeq(p, 1, (CHOOSE i \in marks : \A j \in marks : j <= i) - 1))

\* The nearest enclosing array of the path was observed with length zero.
EnclosingArrayEmpty(p) ==
  LET na == NearestArray(p) IN
  na # JNull /\ na.v \in DOMAIN ArrayLengths /\ ArrayLengths[na.v] = 0

\* C11: an expected field that was not observed is UNVERIFIED_EMPTY_ARRAY
\* exactly when its nearest enclosing array was observed with length zero, and
\* MISSING otherwise, under nested arrays too.
C11_MissingOrUnverified ==
  pc = "classified" =>
    \A fr \in FieldResults :
      fr.observed_type = JNull =>
        fr.status = (IF EnclosingArrayEmpty(fr.field)
                     THEN S("UNVERIFIED_EMPTY_ARRAY") ELSE S("MISSING"))

\* The wraps whose payload holds the object of the field.
ObservedWraps == {"root", "items", "nested", "rootarray"}

\* The field of the input is in the payload that was analysed.
FieldObserved == fn_in.wrap \in ObservedWraps /\ fn_in.value # "absent"

\* The result of the field of the input.
TheField == CHOOSE fr \in FieldResults : fr.field = KeyPath(fn_in, S(fn_in.name))

\* C12: null precedence: whatever the declared type, an expected field that is
\* observed with type null is classified NULL, never TYPE_MISMATCH or OK.
C12_NullPrecedence ==
  pc = "classified" =>
    /\ \A fr \in FieldResults : fr.observed_type = Str1("null") => fr.status = S("NULL")
    /\ (FieldObserved /\ fn_in.value = "null") =>
         /\ TheField.observed_type = Str1("null")
         /\ TheField.status = S("NULL")

C12_Witness ==
  /\ pc = "classified"
  /\ fn_in.value = "null"
  /\ fn_in.declared = "unknown"
  /\ fn_in.wrap = "nested"
  /\ TheField.expected_type = S("unknown")
  /\ TheField.status = S("NULL")

\* The JSON type of each sample value.
TypeOfSample ==
  [v \in DOMAIN SampleValues |->
     CASE v = "null" -> "null"
       [] v = "bool" -> "boolean"
       [] v = "int" -> "integer"
       [] v = "float" -> "number"
       [] v \in StringSamples -> "string"
       [] v \in {"list_empty", "list"} -> "array"
       [] v = "dict" -> "object"]

\* The declared type accepts the observed type: the same type, integer for
\* number, anything for unknown.
Compatible(declared, observed) ==
  \/ declared = observed
  \/ declared = "number" /\ observed = "integer"
  \/ declared = "unknown"

\* C13: type compatibility is total: an expected field observed with a
\* non-null type is OK exactly when the declared type is the observed type, or
\* number for an observed integer, or unknown, and TYPE_MISMATCH in every
\* other combination.
C13_TypeCompatibility ==
  pc = "classified" =>
    /\ \A fr \in FieldResults :
         fr.observed_type \notin {JNull, Str1("null")} =>
           fr.status = (IF Compatible(fr.expected_type[1], fr.observed_type.v[1])
                        THEN S("OK") ELSE S("TYPE_MISMATCH"))
    /\ (FieldObserved /\ fn_in.value # "null") =>
         /\ TheField.expected_type = S(fn_in.declared)
         /\ TheField.observed_type = Str1(TypeOfSample[fn_in.value])
         /\ TheField.status = (IF Compatible(fn_in.declared, TypeOfSample[fn_in.value])
                               THEN S("OK") ELSE S("TYPE_MISMATCH"))

C13_Witness ==
  /\ pc = "classified"
  /\ fn_in.declared = "integer"
  /\ fn_in.value = "float"
  /\ FieldObserved
  /\ TheField.status = S("TYPE_MISMATCH")
  /\ \E fr \in FieldResults : fr.expected_type = S("array") /\ fr.status = S("OK")

\* The expected fields and the open prefixes of the schema that was analysed,
\* and the fields observed in the payload.
ExpectedWalk == expected_of(JDict(<<>>), ClassifySchema(fn_in))

ObservedMap ==
  collect_observed_fields(ClassifyPayload(fn_in), <<>>, Observed(<<>>, <<>>)).out

\* The paths of the extra-field list.
ExtraPaths == {fn_out.extra_fields[i].path : i \in 1..Len(fn_out.extra_fields)}

\* A path is covered by a prefix: it is the prefix, or it goes on from the
\* prefix through a key or through an array item.
Covered(path, prefix) ==
  \/ path = prefix
  \/ /\ Len(path) > Len(prefix)
     /\ SubSeq(path, 1, Len(prefix)) = prefix
     /\ path[Len(prefix) + 1] \in {".", "[]"}

\* C14: the extra-field list is exactly the observed fields whose path is not
\* expected and not covered by an open prefix; metadata is not covered by the
\* open prefix meta.
C14_ExtraFieldDetection ==
  pc = "classified" =>
    /\ ExtraPaths = {p \in DOMAIN ObservedMap :
                       /\ p \notin DOMAIN ExpectedWalk.out
                       /\ \A o \in ExpectedWalk.open_prefixes : ~Covered(p, o)}
    /\ Len(fn_out.extra_fields) = Cardinality(ExtraPaths)
    /\ \A i \in 1..Len(fn_out.extra_fields) :
         fn_out.extra_fields[i] = ObservedMap[fn_out.extra_fields[i].path]
    /\ (fn_in.wrap \in ObservedWraps /\ fn_in.open = "closed") =>
         /\ KeyPath(fn_in, S("meta")) \in ExpectedWalk.open_prefixes
         /\ KeyPath(fn_in, <<"meta", "data">>) \in ExtraPaths
         /\ KeyPath(fn_in, <<"meta", "data", ".", "z">>) \in ExtraPaths
         /\ KeyPath(fn_in, <<"meta", ".", "k">>) \notin ExtraPaths

C14_Witness ==
  /\ pc = "classified"
  /\ fn_in.wrap = "items"
  /\ fn_in.open = "closed"
  /\ <<"items", "[]", ".", "meta">> \in ExpectedWalk.open_prefixes
  /\ <<"items", "[]", ".", "meta", ".", "k">> \in DOMAIN ObservedMap \ ExtraPaths
  /\ <<"items", "[]", ".", "meta", "data">> \in ExtraPaths

\* The keys of the payload's object that its schema does not declare.
UndeclaredKeys == {<<"meta", "data">>, S("_meta")}

\* C15: an object that permits additional properties (true or a sub-schema),
\* at any depth and at the root too, suppresses extras: no undeclared key
\* observed directly under it is reported as an extra field.
C15_OpenObjectsSuppressExtras ==
  (pc = "classified" /\ fn_in.open \in {"open", "schema"}) =>
    \A k \in UndeclaredKeys : KeyPath(fn_in, k) \notin ExtraPaths

\* The fields of a result with their statuses, in the order of the result.
Statuses(result) ==
  [i \in 1..Len(result.field_results) |->
     <<result.field_results[i].field, result.field_results[i].status>>]

\* The warnings of the field of the input in a result.
WarningsOf(result, in) ==
  LET i == CHOOSE j \in 1..Len(result.field_results) :
             result.field_results[j].field = KeyPath(in, S(in.name))
  IN result.field_results[i].warnings

\* C16: semantic warnings never change the primary status: payloads that
\* differ only in the content of a string value yield the same status for
\* every field; an observed string is OK or TYPE_MISMATCH by its declared type
\* alone.
C16_WarningsKeepStatus ==
  (pc = "classified" /\ fn_in.value \in StringSamples) =>
    /\ \A w \in StringSamples :
         Statuses(Analysis([fn_in EXCEPT !.value = w]).result) = Statuses(fn_out)
    /\ FieldObserved =>
         TheField.status = (IF Compatible(fn_in.declared, "string")
                            THEN S("OK") ELSE S("TYPE_MISMATCH"))

C16_Witness ==
  /\ pc = "classified"
  /\ fn_in.name = "createdAt"
  /\ fn_in.declared = "string"
  /\ fn_in.value = "ts_bad"
  /\ fn_in.wrap = "root"
  /\ TheField.status = S("OK")
  /\ TheField.warnings = <<S("timestamp_not_rfc3339")>>
  /\ WarningsOf(Analysis([fn_in EXCEPT !.value = "ts_ok"]).result, fn_in) = <<>>

\* C17: semantic warnings are attached only to string-typed fields whose
\* status is OK or NULL: a field result that is MISSING,
\* UNVERIFIED_EMPTY_ARRAY or TYPE_MISMATCH, or whose observed type is not
\* string, has no warning.
C17_WarningsOnlyOnStringOkNull ==
  pc = "classified" =>
    \A fr \in FieldResults :
      (\/ fr.status \in {S("MISSING"), S("UNVERIFIED_EMPTY_ARRAY"), S("TYPE_MISMATCH")}
       \/ fr.observed_type # Str1("string"))
        => fr.warnings = <<>>

\* A value follows the convention of typed-resource identifiers:
\* A.<16 lowercase hex>.<Name> or A.<16 lowercase hex>.<Name>.<Name>.
FollowsConvention(v) ==
  \E h \in Hex16 : \E n \in Words :
    \/ v = <<"A", ".", h, ".", n>>
    \/ \E m \in Words : v = <<"A", ".", h, ".", n, ".", m>>

\* The cadence warnings of a warning list.
CadenceWarnings(warnings) ==
  SelectSeq(warnings, LAMBDA w : w \in {S("cadence_type_expected"), S("cadence_type_format")})

\* C18: for a field whose last path segment is token and whose observed value
\* is a string, a value that follows the convention gets no cadence warning
\* and a value that does not follow it gets one.
C18_CadenceTypeCheck ==
  (pc = "classified" /\ FieldObserved /\ fn_in.name = "token"
     /\ fn_in.value \in StringSamples) =>
    Len(CadenceWarnings(TheField.warnings))
      = (IF FollowsConvention(SampleValues[fn_in.value].v) THEN 0 ELSE 1)

\* The {name} segments of the template of the input that resolve to no value:
\* their positions in the template's parameter list.
Unresolved ==
  LET ps == Templates[fn_in.template].params IN
  {i \in 1..Len(ps) :
     \/ ps[i][2] = "none"
     \/ ps[i][2] \notin {"none", "fixed"} /\ fn_in.seeds[ps[i][2]] = JNull}

\* A str holds a brace.
HasBrace(s) == \E i \in 1..Len(s) : s[i] \in {"{", "}"}

\* C19: if a {name} segment of the path template resolves to no value, the
\* endpoint is skipped: skip_reason names the parameter, url, http_status and
\* latency_ms are null, there are no field results and no extra fields, and no
\* HTTP call is made; a result with a null skip_reason has a URL with no {name}
\* segment left.
C19_PathParameterSkip ==
  /\ (pc # "prepare" /\ Unresolved # {}) =>
       /\ pc = "skipped"
       /\ fn_out.http_calls = 0
       /\ \E i \in Unresolved :
            fn_out.result.skip_reason
              = JStr(<<"missing path param ", Templates[fn_in.template].params[i][1]>>)
       /\ fn_out.result.url = JNull
       /\ fn_out.result.http_status = JNull
       /\ fn_out.result.latency_ms = JNull
       /\ fn_out.result.field_results = <<>>
       /\ fn_out.result.extra_fields = <<>>
  /\ (pc # "prepare" /\ Unresolved = {}) => pc \in {"get", "probed"}
  /\ pc = "get" => ~HasBrace(fn_out.url.v)
  /\ pc = "probed" =>
       /\ fn_out.http_calls = 1
       /\ fn_out.result.skip_reason = JNull
       /\ fn_out.result.url = fn_out.url
       /\ ~HasBrace(fn_out.result.url.v)

C19_Witness ==
  /\ pc = "skipped"
  /\ fn_in.template = "nft_item"
  /\ fn_in.seeds.nft_type # JNull
  /\ fn_in.seeds.nft_item_id = JNull
  /\ fn_out.http_calls = 0
  /\ fn_out.result.skip_reason = JStr(<<"missing path param ", "id">>)

\* The declared parameter of the input is a required query parameter with a
\* string name.
RequiredQuery ==
  fn_in.param.in = "query" /\ fn_in.param.required /\ fn_in.param.name # "nonstring"

\* The query built for the operation and the seeds of the input.
BuiltQuery == build_query(get_parameters(ProbeOperation(fn_in)), fn_in.seeds)

\* The values a query parameter can be given: its default, its first enum
\* value, a table value, or the placeholder 0.
QueryValues ==
  {S("5"), S("asc"), S("1"), S("0"), S("2020-01-01"), S("Flow.AccountCreated")}
  \cup (IF fn_in.seeds.height = JNull THEN {} ELSE {fn_in.seeds.height.v})

\* C20: for any declared parameters and any seeds, a parameter declared in
\* query, required, with a string name is in the built query with a value; the
\* list of missing required parameters is empty, and no endpoint is skipped for
\* a missing query parameter.
C20_RequiredQueryHasValue ==
  pc # "prepare" =>
    /\ BuiltQuery.missing_required = <<>>
    /\ RequiredQuery =>
         \E i \in 1..Len(BuiltQuery.q) :
           /\ BuiltQuery.q[i][1] = S(fn_in.param.name)
           /\ BuiltQuery.q[i][2] \in QueryValues
    /\ pc = "skipped" => Unresolved # {} /\ fn_out.result.skip_reason.v[1] = "missing path param "
    /\ (RequiredQuery /\ pc \in {"get", "probed"}) =>
         \E v \in QueryValues :
           Contains(fn_out.url.v, <<fn_in.param.name, "=">> \o v)

C20_Witness ==
  /\ pc = "probed"
  /\ fn_in.param = [in |-> "query", name |-> "cursor", required |-> TRUE, schema |-> "none"]
  /\ fn_in.template = "status"
  /\ fn_out.url = JStr(RStripSlash(Base) \o StatusPath
                       \o <<"?", "cursor", "=", "0", "&", "offset", "=", "0">>)
  /\ fn_out.http_calls = 1

\* The probes that made their GET and returned a result.
Probed ==
  {e \in DOMAIN future :
     future[e].state = "FINISHED" /\ future[e].exception = NoExc /\ ~future[e].skip}

\* What the API answered to the GET of a probe.
AnswerOf(e) == Respond(Api(api), future[e].url)

\* The expected fields of the response schema of an endpoint.
ExpectedOf(e) ==
  LET found == find_response_schema(OpOf(e)) IN
  expected_of(SpecDocument, IF Truthy(found) THEN found ELSE JDict(<<>>)).out

\* The fields observed in a body.
ObservedIn(body) ==
  IF body.t \in {"dict", "list"}
  THEN collect_observed_fields(body, <<>>, Observed(<<>>, <<>>)).out
  ELSE <<>>

\* C21: a non-2xx answer does not short-circuit the analysis: the result
\* records the status with a null skip_reason and holds one field result for
\* every expected field of the response schema, classified against the body
\* that was returned.
C21_NonSuccessIsAnalysed ==
  \A e \in Probed :
    LET r == future[e].result
        a == AnswerOf(e)
    IN a.status \notin 200..299 =>
         /\ r.http_status = JInt(a.status)
         /\ r.skip_reason = JNull
         /\ Len(r.field_results) = Cardinality(DOMAIN ExpectedOf(e))
         /\ {r.field_results[i].field : i \in 1..Len(r.field_results)} = DOMAIN ExpectedOf(e)
         /\ \A i \in 1..Len(r.field_results) :
              LET fr == r.field_results[i] IN
              IF fr.field \in DOMAIN ObservedIn(a.body)
              THEN fr.observed_type = JStr(ObservedIn(a.body)[fr.field].observed_type)
              ELSE fr.observed_type = JNull /\ fr.status \in {S("MISSING"), S("UNVERIFIED_EMPTY_ARRAY")}

C21_Witness ==
  /\ pc = "done"
  /\ \E e \in Probed :
       /\ future[e].result.http_status = JInt(503)
       /\ future[e].result.skip_reason = JNull
       /\ Len(future[e].result.field_results) = 1
       /\ future[e].result.field_results[1].field = S("ok")
       /\ future[e].result.field_results[1].status = S("MISSING")
       /\ Len(future[e].result.extra_fields) = 1

\* C22: seeding is best-effort per call: whatever a harvesting call meets (a
\* status that is not 200, a connection failure, a timeout, a malformed or an
\* empty result), the next statement of the run is taken: the later harvesting
\* calls are made and seeding returns a seed set.
C22_SeedingIsBestEffort ==
  [][(pc \in SeedStatements) => (pc' = next_stmt(pc))]_vars

\* The addresses the sources of the input yield: the first entry of the first
\* holding that is not empty, for the tokens and for the NFT collections, and
\* the first account of the listing.
FtHolderAddress == IF fn_in.ft = "held" THEN Str1("0x02") ELSE JNull
NftHolderAddress == IF fn_in.nft = "held" THEN Str1("0x03") ELSE JNull
ListedAddress == IF fn_in.account = "listed" THEN Str1("0x01") ELSE JNull

HolderAddresses == {FtHolderAddress, NftHolderAddress} \ {JNull}

\* C23: after seeding the address seed is a holding's address whenever a token
\* or NFT holding with a str address or owner was found, the account-listing
\* address only when none was, and null only when no source yielded one.
C23_AddressSeedPreference ==
  pc = "endpoints" =>
    /\ HolderAddresses # {} => seeds.address \in HolderAddresses
    /\ HolderAddresses = {} => seeds.address = ListedAddress

C23_Witness ==
  /\ pc = "endpoints"
  /\ fn_in = [account |-> "listed", ft |-> "later", nft |-> "held"]
  /\ seeds.address = Str1("0x03")
  /\ seeds.token = CadenceType("Idle")

\* The runtime type of a JSON value.
RuntimeType(v) ==
  CASE v.t = "null" -> "null" [] v.t = "bool" -> "boolean" [] v.t = "int" -> "integer"
    [] v.t = "float" -> "number" [] v.t = "str" -> "string" [] v.t = "list" -> "array"
    [] v.t = "dict" -> "object"

\* The values reached from a value at a path, each with its path and runtime
\* type: the value itself, the value of every key of an object, and the first
\* element of an array that is not empty.
RECURSIVE Reached(_, _)
Reached(v, path) ==
  {<<path, RuntimeType(v)>>}
  \cup (IF v.t = "dict"
        THEN UNION {Reached(v.v[i][2],
                            IF path = <<>> THEN v.v[i][1] ELSE path \o <<".">> \o v.v[i][1])
                      : i \in 1..Len(v.v)}
        ELSE {})
  \cup (IF v.t = "list" /\ v.v # <<>> THEN Reached(v.v[1], path \o <<"[]">>) ELSE {})

\* C24: the flattener records an entry with the runtime type for every value
\* it reaches: the root value at the root path, every key of every reached
\* object, and one item-path entry, from the first element, for every array
\* that is not empty.
C24_FlatteningCoverage ==
  pc = "classified" =>
    {<<p, ObservedMap[p].observed_type[1]>> : p \in DOMAIN ObservedMap}
      = Reached(ClassifyPayload(fn_in), <<>>)

PlainProperties ==
  {<<S("id"), "root", "id">>,
   <<S("owner"), "root", "owner">>,
   <<S("items"), "root", "items">>,
   <<<<"owner", ".", "id">>, "owner", "id">>,
   <<<<"owner", ".", "key">>, "owner", "key">>,
   <<<<"owner", ".", "key", ".", "index">>, "key", "index">>,
   <<<<"items", "[]", ".", "id">>, "item", "id">>,
   <<<<"items", "[]", ".", "note">>, "item", "note">>}

\* C26: for a schema without references or composition the resolver yields
\* one expected field per property path, required exactly when the name of
\* the property is in the required list of its direct parent object.
C26_RequiredFlags ==
  (pc = "shaped" /\ fn_in.kind = "plain") =>
    /\ fn_out.exc = NoExc
    /\ DOMAIN fn_out.out = {pp[1] : pp \in PlainProperties} \cup {<<"items", "[]">>}
    /\ \A pp \in PlainProperties :
         /\ fn_out.out[pp[1]].path = pp[1]
         /\ fn_out.out[pp[1]].required = (pp[3] \in fn_in[pp[2]])

C26_Witness ==
  /\ pc = "shaped"
  /\ fn_in.kind = "plain"
  /\ fn_in.root = {"owner", "items"}
  /\ fn_in.owner = {"key"}
  /\ fn_in.key = {}
  /\ fn_in.item = {"note"}
  /\ fn_out.out[S("owner")].required
  /\ ~fn_out.out[<<"owner", ".", "id">>].required
  /\ fn_out.out[<<"owner", ".", "key">>].required
  /\ ~fn_out.out[<<"owner", ".", "key", ".", "index">>].required
  /\ ~fn_out.out[<<"items", "[]", ".", "id">>].required
  /\ fn_out.out[<<"items", "[]", ".", "note">>].required

\* The branches of the merged schema in order, and the first of them whose
\* attribute is set (0: none is).
MergedBranches == <<fn_in.first, fn_in.second, fn_in.third>>

FirstBranch(Set(_)) ==
  IF \E i \in 1..3 : Set(MergedBranches[i])
  THEN CHOOSE i \in 1..3 : Set(MergedBranches[i]) /\ \A j \in 1..(i - 1) : ~Set(MergedBranches[j])
  ELSE 0

FirstTyped == FirstBranch(LAMBDA b : b.type # "none")

FirstFormatted == FirstBranch(LAMBDA b : b.format \notin {"none", "empty"})

FirstDescribed == FirstBranch(LAMBDA b : b.description \notin {"none", "empty"})

\* C27: when the branches of an allOf describe the same field path there is
\* one expected field: its type is the type of the first branch that has one
\* (unknown when none has), it is required when some branch requires it, and
\* its format and description are the first non-empty ones in branch order.
C27_AllOfMerge ==
  (pc = "shaped" /\ fn_in.kind = "merge") =>
    /\ fn_out.exc = NoExc
    /\ DOMAIN fn_out.out = {S("id")}
    /\ LET f == fn_out.out[S("id")] IN
       /\ f.expected_type = IF FirstTyped = 0 THEN S("unknown")
                            ELSE S(MergedBranches[FirstTyped].type)
       /\ f.required = (\E i \in 1..3 : MergedBranches[i].required)
       /\ IF FirstFormatted = 0 THEN f.fmt \in {JNull, JStr(<<>>)}
          ELSE f.fmt = Str1(MergedBranches[FirstFormatted].format)
       /\ IF FirstDescribed = 0 THEN f.description \in {JNull, JStr(<<>>)}
          ELSE f.description = Str1(MergedBranches[FirstDescribed].description)

C27_Witness ==
  /\ pc = "shaped"
  /\ fn_in.kind = "merge"
  /\ fn_in.first = [type |-> "none", required |-> FALSE, format |-> "empty", description |-> "a"]
  /\ fn_in.second = [type |-> "integer", required |-> TRUE, format |-> "uuid", description |-> "none"]
  /\ fn_in.third = [type |-> "string", required |-> TRUE, format |-> "empty", description |-> "a"]
  /\ fn_out.out[S("id")] = ExpectedField(S("id"), S("integer"), TRUE, Str1("uuid"), Str1("a"))

\* C28: for a schema that is an array at the root and a payload that is the
\* empty array, length zero is recorded at the root path and every expected
\* item field ("[]" and the fields below it) is UNVERIFIED_EMPTY_ARRAY.
C28_RootArrays ==
  (pc = "classified" /\ fn_in.wrap = "rootarray_empty") =>
    /\ <<>> \in DOMAIN ArrayLengths
    /\ ArrayLengths[<<>>] = 0
    /\ \A fr \in FieldResults :
         (fr.field[1] = "[]") => fr.status = S("UNVERIFIED_EMPTY_ARRAY")

\* The number of field results of the result with a status.
Counted(st) ==
  Cardinality({i \in 1..Len(fn_out.field_results) : fn_out.field_results[i].status = S(st)})

\* C29: in a result that is not skipped the summary counts partition the
\* expected fields: the five status counts add up to expected, which is the
\* number of field results; each count is the number of field results with
\* that status; extra is the length of the extra-field list.
C29_SummaryCounts ==
  (pc = "classified" /\ fn_out.skip_reason = JNull) =>
    LET s == fn_out.summary IN
    /\ s.ok + s.missing + s.null + s.type_mismatch + s.unverified_empty_array = s.expected
    /\ s.expected = Len(fn_out.field_results)
    /\ s.expected = Cardinality(DOMAIN ExpectedWalk.out)
    /\ s.ok = Counted("OK")
    /\ s.missing = Counted("MISSING")
    /\ s.null = Counted("NULL")
    /\ s.type_mismatch = Counted("TYPE_MISMATCH")
    /\ s.unverified_empty_array = Counted("UNVERIFIED_EMPTY_ARRAY")
    /\ s.extra = Len(fn_out.extra_fields)

C29_Witness ==
  /\ pc = "classified"
  /\ fn_out.skip_reason = JNull
  /\ fn_out.summary.ok >= 1
  /\ fn_out.summary.type_mismatch >= 1
  /\ fn_out.summary.extra >= 1
  /\ fn_out.summary.expected > fn_out.summary.ok

\* The endpoints of the run whose path contains the NFT item template.
NftItemEndpoints == {e \in DOMAIN future : Contains(e, NftItemPath)}

\* C30: the NFT item seed is never harvested: nft_item_id is unset in every
\* state of every run, and every endpoint whose path contains
\* /nft/{nft_type}/item/{id} makes no HTTP call and ends skipped, for the
\* missing path parameter id or for the earlier one, nft_type.
C30_NftItemNeverProbed ==
  /\ seeds.nft_item_id = JNull
  /\ \A e \in NftItemEndpoints :
       /\ future[e].http_calls = 0
       /\ future[e].state = "FINISHED" =>
            /\ future[e].exception = NoExc
            /\ future[e].skip
            /\ future[e].result.skip_reason
                 \in {JStr(<<"missing path param ", "id">>),
                      JStr(<<"missing path param ", "nft_type">>)}
            /\ future[e].result.url = JNull
            /\ future[e].result.http_status = JNull
            /\ future[e].result.field_results = <<>>

C30_Witness ==
  /\ pc = "done"
  /\ seeds.nft_type # JNull
  /\ seeds.nft_item_id = JNull
  /\ NftItemPath \in NftItemEndpoints
  /\ future[NftItemPath].state = "FINISHED"
  /\ future[NftItemPath].http_calls = 0
  /\ future[NftItemPath].result.skip_reason = JStr(<<"missing path param ", "id">>)

====
